---- MODULE Spec2Model ----
(***************************************************************************)
(* Tic-tac-toe search engine of Homework4/solutions: the game state        *)
(* contract (game.py), the exact minimax solver (minimax.py), the MCTS     *)
(* driver (mcts.py) and the cached position evaluator (evaluators.py).     *)
(*                                                                         *)
(* Cells are numbered 0..8 as in the source.  A board is a function from   *)
(* 0..8 to {"X", "O", "."}.  A float is written in hundredths: 1.0 is 100,  *)
(* 0.5 is 50, 0.07 is 7.                                                   *)
(***************************************************************************)
EXTENDS Integers, Sequences, FiniteSets, TLC

VARIABLES
    state,      \* play_game: the current GameState
    call,       \* the last call of apply_move: its arguments and its result
    solved,     \* the last call of minimax_value: its arguments and its result
    decision,   \* MinimaxAgent: the call of choose_perfect_move for this turn
    ev,         \* the LLMPositionEvaluator object in use
    file,       \* the file at the evaluator's cache path
    prevEval,   \* the call of evaluate before the last one, on the same object
    lastEval,   \* the last call of evaluate on the object
    saved,      \* the cache as it was when save_cache last wrote the file
    agent,      \* the MCTSAgent object in use
    search,     \* MCTSAgent.choose_move: the call in progress or just returned
    twin,       \* two objects constructed independently, the calls made on
                \* both and what each returned
    oracle,     \* the values of random.Random, of the UCB scores and of the
                \* heuristic that the calls so far have asked for
    players,    \* play_game: the agents agent_x and agent_o it was called with
    rollout,    \* the rollout in progress or just returned: the loop of
                \* RandomRolloutEvaluator.evaluate or of _guided_rollout
    threads     \* two threads that call evaluate on the evaluator ev: where
                \* each one is in the call and what it holds

gameVars == <<state, call>>
minimaxVars == <<solved, decision>>
evalVars == <<ev, file, prevEval, lastEval, saved>>
mctsVars == <<agent, search>>
seedVars == <<twin, oracle>>
vars ==
    <<state, call, solved, decision, ev, file, prevEval, lastEval, saved,
      agent, search, twin, oracle, players, rollout, threads>>

----------------------------------------------------------------------------
(* game.py *)

PLAYER_X == "X"
PLAYER_O == "O"
EMPTY == "."
DRAW == "DRAW"
\* Python's None, where a string is expected
None == "None"
\* Python's None, where a number, a GameState or a Node is expected; a number
\* v that is present is the one-element sequence <<v>>
Nothing == <<>>
Some(v) == <<v>>

\* 1.0, 0.5 and 0.0 in hundredths
ValueWin == 100
ValueDraw == 50
ValueLoss == 0

Cells == 0..8

WIN_LINES ==
    << <<0, 1, 2>>, <<3, 4, 5>>, <<6, 7, 8>>,
       <<0, 3, 6>>, <<1, 4, 7>>, <<2, 5, 8>>,
       <<0, 4, 8>>, <<2, 4, 6>> >>

GameState(b, p) == [board |-> b, player |-> p]

initial_state == GameState([i \in Cells |-> EMPTY], PLAYER_X)

other_player(player) == IF player = PLAYER_X THEN PLAYER_O ELSE PLAYER_X

\* legal_moves over the first eight cells only.
legal_moves_skip_last(s) ==
    SelectSeq(<<0, 1, 2, 3, 4, 5, 6, 7>>, LAMBDA idx : s.board[idx] = EMPTY)

\* [idx for idx, cell in enumerate(state.board) if cell == EMPTY]
legal_moves(s) ==
    SelectSeq(<<0, 1, 2, 3, 4, 5, 6, 7, 8>>, LAMBDA idx : s.board[idx] = EMPTY)

\* Python's tuple indexing: board[i] for -9 <= i <= 8, a negative index counts
\* from the end.
TupleIndex(i) == IF i < 0 THEN i + 9 ELSE i

\* The result of a call: the exception raised (None if none) and the value
\* returned (None if it raised).
Raised(exc) == [error |-> exc, value |-> Nothing]
Returned(v) == [error |-> None, value |-> v]

\* apply_move with the test move < 0 left out: a negative index reaches the
\* tuple and counts from its end.
apply_move_no_lower_check(s, move) ==
    IF move > 8
    THEN [error |-> "ValueError", value |-> Nothing, input |-> s]
    ELSE IF s.board[TupleIndex(move)] # EMPTY
    THEN [error |-> "ValueError", value |-> Nothing, input |-> s]
    ELSE [error |-> None,
          value |-> GameState([s.board EXCEPT ![TupleIndex(move)] = s.player],
                              other_player(s.player)),
          input |-> s]

\* apply_move that leaves the mover as it is.
apply_move_keeps_player(s, move) ==
    IF move < 0 \/ move > 8
    THEN [error |-> "ValueError", value |-> Nothing, input |-> s]
    ELSE IF s.board[TupleIndex(move)] # EMPTY
    THEN [error |-> "ValueError", value |-> Nothing, input |-> s]
    ELSE [error |-> None,
          value |-> GameState([s.board EXCEPT ![TupleIndex(move)] = s.player],
                              s.player),
          input |-> s]

\* apply_move that writes X into the cell, whoever moves.
apply_move_marks_x(s, move) ==
    IF move < 0 \/ move > 8
    THEN [error |-> "ValueError", value |-> Nothing, input |-> s]
    ELSE IF s.board[TupleIndex(move)] # EMPTY
    THEN [error |-> "ValueError", value |-> Nothing, input |-> s]
    ELSE [error |-> None,
          value |-> GameState([s.board EXCEPT ![TupleIndex(move)] = PLAYER_X],
                              other_player(s.player)),
          input |-> s]

\* The result holds the exception raised, the state returned, and the
\* argument as the call leaves it: next_board is a copy (list(state.board)),
\* so the argument is untouched.
apply_move(s, move) ==
    IF move < 0 \/ move > 8
    THEN [error |-> "ValueError", value |-> Nothing, input |-> s]
    ELSE IF s.board[TupleIndex(move)] # EMPTY
    THEN [error |-> "ValueError", value |-> Nothing, input |-> s]
    ELSE [error |-> None,
          value |-> GameState([s.board EXCEPT ![TupleIndex(move)] = s.player],
                              other_player(s.player)),
          input |-> s]

\* The first line of WIN_LINES holding three equal marks decides.
winner(board) ==
    LET full == {k \in 1..Len(WIN_LINES) :
                    /\ board[WIN_LINES[k][1]] # EMPTY
                    /\ board[WIN_LINES[k][1]] = board[WIN_LINES[k][2]]
                    /\ board[WIN_LINES[k][2]] = board[WIN_LINES[k][3]]}
    IN  IF full = {}
        THEN None
        ELSE board[WIN_LINES[CHOOSE k \in full : \A j \in full : k <= j][1]]

terminal_outcome(s) ==
    LET who == winner(s.board)
    IN  IF who # None THEN who
        ELSE IF \A i \in Cells : s.board[i] # EMPTY THEN DRAW
        ELSE None

\* terminal_value that scores every win as X's.
terminal_value_ignores_perspective(s, perspective) ==
    LET outcome == terminal_outcome(s)
    IN  IF outcome = None THEN Nothing
        ELSE IF outcome = DRAW THEN Some(ValueDraw)
        ELSE IF outcome = PLAYER_X THEN Some(ValueWin) ELSE Some(ValueLoss)

terminal_value(s, perspective) ==
    LET outcome == terminal_outcome(s)
    IN  IF outcome = None THEN Nothing
        ELSE IF outcome = DRAW THEN Some(ValueDraw)
        ELSE IF outcome = perspective THEN Some(ValueWin) ELSE Some(ValueLoss)

----------------------------------------------------------------------------
(* minimax.py *)

Max(S) == CHOOSE v \in S : \A w \in S : w <= v
Min(S) == CHOOSE v \in S : \A w \in S : v <= w

\* minimax_value that maximises at every node, whoever is to move.
RECURSIVE minimax_value_always_max(_, _)
minimax_value_always_max(s, perspective) ==
    LET terminal == terminal_value(s, perspective)
    IN  IF terminal # Nothing THEN terminal[1]
        ELSE LET moves == legal_moves(s)
             IN  Max({minimax_value_always_max(apply_move(s, moves[k]).value,
                                               perspective) :
                         k \in 1..Len(moves)})

\* minimax_value that takes the value of the first move when the opponent of
\* the perspective is to move.
RECURSIVE minimax_value_first_reply(_, _)
minimax_value_first_reply(s, perspective) ==
    LET terminal == terminal_value(s, perspective)
    IN  IF terminal # Nothing THEN terminal[1]
        ELSE LET moves == legal_moves(s)
                 child_values ==
                     {minimax_value_first_reply(apply_move(s, moves[k]).value,
                                                perspective) :
                         k \in 1..Len(moves)}
             IN  IF s.player = perspective
                 THEN Max(child_values)
                 ELSE minimax_value_first_reply(apply_move(s, moves[1]).value,
                                                perspective)

RECURSIVE minimax_value(_, _)
minimax_value(s, perspective) ==
    LET terminal == terminal_value(s, perspective)
    IN  IF terminal # Nothing THEN terminal[1]
        ELSE LET moves == legal_moves(s)
                 child_values ==
                     {minimax_value(apply_move(s, moves[k]).value, perspective) :
                         k \in 1..Len(moves)}
             IN  IF s.player = perspective
                 THEN Max(child_values)
                 ELSE Min(child_values)

\* best_moves that keeps the moves of the lowest value.
best_moves_lowest(s) ==
    LET perspective == s.player
        moves == legal_moves(s)
        scored == [k \in 1..Len(moves) |->
                      <<moves[k],
                        minimax_value(apply_move(s, moves[k]).value, perspective)>>]
    IN  IF Len(scored) = 0
        THEN <<>>
        ELSE LET best_value == Min({scored[k][2] : k \in 1..Len(scored)})
             IN  SelectSeq(scored, LAMBDA mv : mv[2] = best_value)

\* best_moves that keeps only the first of the moves of the best value.
best_moves_first_only(s) ==
    LET perspective == s.player
        moves == legal_moves(s)
        scored == [k \in 1..Len(moves) |->
                      <<moves[k],
                        minimax_value(apply_move(s, moves[k]).value, perspective)>>]
    IN  IF Len(scored) = 0
        THEN <<>>
        ELSE LET best_value == Max({scored[k][2] : k \in 1..Len(scored)})
             IN  <<SelectSeq(scored, LAMBDA mv : mv[2] = best_value)[1]>>

\* The list of (move, value) pairs, in the order of legal_moves.
best_moves(s) ==
    LET perspective == s.player
        moves == legal_moves(s)
        scored == [k \in 1..Len(moves) |->
                      <<moves[k],
                        minimax_value(apply_move(s, moves[k]).value, perspective)>>]
    IN  IF Len(scored) = 0
        THEN <<>>
        ELSE LET best_value == Max({scored[k][2] : k \in 1..Len(scored)})
             IN  SelectSeq(scored, LAMBDA mv : mv[2] = best_value)

\* choose_perfect_move that takes any legal move with its value.
choose_perfect_move_any_move(s) ==
    LET moves == legal_moves(s)
    IN  IF Len(moves) = 0
        THEN {Raised("ValueError")}
        ELSE {Returned(<<moves[k],
                         minimax_value(apply_move(s, moves[k]).value, s.player)>>) :
                 k \in 1..Len(moves)}

\* rng.choice(choices): any element of the list, by the seed.
choose_perfect_move(s) ==
    LET choices == best_moves(s)
    IN  IF Len(choices) = 0
        THEN {Raised("ValueError")}
        ELSE {Returned(choices[k]) : k \in 1..Len(choices)}

----------------------------------------------------------------------------
(* evaluators.py: LLMPositionEvaluator *)

\* "".join(state.board) + ":" + state.player, as the sequence of its characters
state_key(s) == [i \in 1..9 |-> s.board[i - 1]] \o <<":", s.player>>

\* max(lo, min(hi, value)) with lo = 0.0 and hi = 1.0
_clamp(value) ==
    LET capped == IF value < ValueWin THEN value ELSE ValueWin
    IN  IF capped > ValueLoss THEN capped ELSE ValueLoss

\* provider.lower().strip(), on the provider arguments used here
NormalizeProvider(provider) ==
    CASE provider = " OpenAI " -> "openai"
      [] provider = "Heuristic" -> "heuristic"
      [] OTHER -> provider

\* rollout_samples: int = 4
rollout_samples == 4

NewStats ==
    [cache_hits |-> 0, cache_misses |-> 0, api_calls |-> 0,
     fallback_to_heuristic |-> 0, guided_rollouts |-> 0]

\* A dict as a function on its keys.
EmptyDict == <<>>
DictPut(d, k, v) == [x \in (DOMAIN d) \cup {k} |-> IF x = k THEN v ELSE d[x]]

DigitChar == <<"0", "1", "2", "3", "4", "5", "6", "7", "8", "9">>
DigitOf(c) == CHOOSE d \in 0..9 : DigitChar[d + 1] = c

\* float.__repr__ with a single fractional digit, the second one cut off
FloatReprOneDigit(n) ==
    <<DigitChar[(n \div 100) + 1], ".", DigitChar[((n % 100) \div 10) + 1]>>

\* float.__repr__ of a float 0.00 .. 9.99 with at most two fractional digits,
\* as json.dumps writes it: "0.5", "0.07", "1.0"
FloatRepr(n) ==
    <<DigitChar[(n \div 100) + 1], ".", DigitChar[((n % 100) \div 10) + 1]>>
    \o (IF n % 10 = 0 THEN <<>> ELSE <<DigitChar[(n % 10) + 1]>>)

\* float(v) of a number json.loads read from such text
ParseFloat(text) ==
    DigitOf(text[1]) * 100 + DigitOf(text[3]) * 10
    + (IF Len(text) > 3 THEN DigitOf(text[4]) ELSE 0)

\* json.dumps(self.cache, indent=2, sort_keys=True): the members of the JSON
\* object, each a key and the text of its number
JsonDumps(cache) == {<<k, FloatRepr(cache[k])>> : k \in DOMAIN cache}

\* The text of a JSON value that is a string, and the characters in it.
IsJsonString(text) == text[1] = "\""
StringChars(text) == SubSeq(text, 2, Len(text) - 1)

\* The text is one digit, a point and one or two digits.
IsNumberText(text) ==
    /\ Len(text) \in {3, 4}
    /\ text[2] = "."
    /\ \A i \in (1..Len(text)) \ {2} : \E d \in 1..10 : DigitChar[d] = text[i]

\* float(v) of the value json.loads read from the text, for the values found
\* in the files below: a number is itself, a string is parsed when it spells
\* a number and raises ValueError when it does not, true is 1.0, false is
\* 0.0, and float(None) raises TypeError.
PyFloat(text) ==
    IF IsNumberText(text) THEN Returned(ParseFloat(text))
    ELSE IF IsJsonString(text)
    THEN IF IsNumberText(StringChars(text))
         THEN Returned(ParseFloat(StringChars(text)))
         ELSE Raised("ValueError")
    ELSE IF text = <<"t", "r", "u", "e">> THEN Returned(ValueWin)
    ELSE IF text = <<"f", "a", "l", "s", "e">> THEN Returned(ValueLoss)
    ELSE Raised("TypeError")

\* {k: float(v) for k, v in json.loads(text).items()}
JsonLoads(members) ==
    [k \in {m[1] : m \in members} |->
        PyFloat((CHOOSE m \in members : m[1] = k)[2]).value]

\* A file: whether it exists, what reading and parsing it comes to ("object":
\* a JSON object; "array": JSON that is no object; "garbage": no JSON;
\* "unreadable": read_text raises), and the members of the object.
FileOf(kind, members) == [exists |-> TRUE, kind |-> kind, members |-> members]

AbsentFile == [exists |-> FALSE, kind |-> "object", members |-> {}]

\* The try block of __init__ with the dict built entry by entry and no
\* except clause: the entries before the first bad one are kept and the
\* exception leaves __init__.
LoadCache_partial(f) ==
    IF f.kind \in {"unreadable", "garbage"} THEN Raised("Exception")
    ELSE IF f.kind # "object" THEN Returned(EmptyDict)
    ELSE LET good == {m \in f.members : PyFloat(m[2]).error = None}
         IN  [error |-> IF good = f.members THEN None ELSE "ValueError",
              value |-> JsonLoads(good)]

\* The try block of __init__: the exception that leaves it (None: every
\* exception is caught) and the cache after it.
LoadCache(f) ==
    IF f.kind \in {"unreadable", "garbage"} THEN Returned(EmptyDict)
    ELSE IF f.kind # "object" THEN Returned(EmptyDict)
    ELSE IF \E m \in f.members : PyFloat(m[2]).error # None
    THEN Returned(EmptyDict)
    ELSE Returned(JsonLoads(f.members))

\* __init__: the cache is loaded when cache_path is set and the file exists.
\* init_error: the exception __init__ raised, None when it returned.
LLMPositionEvaluator(provider, model, api_key, cache_path, f) ==
    [provider |-> NormalizeProvider(provider),
     model |-> model,
     api_key |-> api_key,
     cache_path |-> cache_path,
     cache |-> IF cache_path # None /\ f.exists
               THEN LoadCache(f).value
               ELSE EmptyDict,
     stats |-> NewStats,
     init_error |-> IF cache_path # None /\ f.exists
                    THEN LoadCache(f).error
                    ELSE None]

\* f"{self.provider}|{self.model}|{root_player}|{state_key(state)}"
KeyOf(provider, model, root_player, s) ==
    <<provider, "|", model, "|", root_player, "|">> \o state_key(s)

CacheKey(e, s, root_player) == KeyOf(e.provider, e.model, root_player, s)

\* What the remote call of _evaluate_with_openai can come to: an exception
\* (timeout, HTTP error, malformed body) or the float parsed from the answer.
RemoteFloats == {0 - 50, 30, 170}
RemoteOutcomes == {[error |-> "Exception", value |-> Nothing]}
                  \cup {[error |-> None, value |-> Some(p)] : p \in RemoteFloats}

\* _evaluate_with_openai: the value or the exception, and the object after it
_evaluate_with_openai(e, s, root_player) ==
    LET e1 == [e EXCEPT !.stats.api_calls = @ + 1]
    IN  {[error |-> r.error,
          value |-> IF r.error = None THEN Some(_clamp(r.value[1])) ELSE Nothing,
          ev |-> e1] : r \in RemoteOutcomes}

\* The floats "calibrated" can be: 0.5 + (blended - 0.5) * 0.85 with blended
\* in [0, 1].  The arithmetic of the score, math.exp and the rollouts seeded
\* by sha256 of the key are not computed here: any of these floats.
CalibratedFloats == {8, 92}

\* _heuristic_value: each of the rollout_samples guided rollouts is counted
_heuristic_value(e, s, root_player, key) ==
    LET e1 == [e EXCEPT !.stats.guided_rollouts = @ + rollout_samples]
    IN  {[value |-> _clamp(c), ev |-> e1] : c \in CalibratedFloats}

\* What a call of evaluate comes to: the exception it raised (None: it
\* returned), the value, the object after the call, the cache key, whether
\* the cache answered, what the remote call came to ("none": not made) and
\* the value _heuristic_value returned in this call (None: not called).
EvaluateResult(error, value, e, key, hit, remote, heuristic) ==
    [error |-> error, value |-> value, ev |-> e, key |-> key, hit |-> hit,
     remote |-> remote, heuristic |-> heuristic]

\* What evaluate computes on a miss: every way it can go, each with the
\* value, the object, what the remote call came to and the heuristic value.
ComputeOnMiss(e, s, root_player, key) ==
    LET e1 == [e EXCEPT !.stats.cache_misses = @ + 1]
        fallback(x) == [x EXCEPT !.stats.fallback_to_heuristic = @ + 1]
        heuristic(x, remote) ==
            {[value |-> h.value, ev |-> h.ev, remote |-> remote,
              heuristic |-> Some(h.value)] :
                h \in _heuristic_value(x, s, root_player, key)}
    IN  IF e.provider = "openai" /\ e.api_key # ""
        THEN UNION {IF r.error = None
                    THEN {[value |-> r.value[1], ev |-> r.ev,
                           remote |-> "answered", heuristic |-> Nothing]}
                    ELSE heuristic(fallback(r.ev), "failed") :
                        r \in _evaluate_with_openai(e1, s, root_player)}
        ELSE IF e.provider = "openai" /\ e.api_key = ""
        THEN heuristic(fallback(e1), "none")
        ELSE heuristic(e1, "none")

\* evaluate that stores nothing after a miss.
LLMEvaluate_no_store(e, s, root_player) ==
    LET terminal == terminal_value(s, root_player)
        key == CacheKey(e, s, root_player)
    IN  IF terminal # Nothing
        THEN {EvaluateResult(None, terminal[1], e, key, FALSE, "none", Nothing)}
        ELSE IF key \in DOMAIN e.cache
        THEN {EvaluateResult(None, e.cache[key],
                             [e EXCEPT !.stats.cache_hits = @ + 1],
                             key, TRUE, "none", Nothing)}
        ELSE {EvaluateResult(None, c.value, c.ev, key, FALSE, c.remote, c.heuristic) :
                 c \in ComputeOnMiss(e, s, root_player, key)}

\* evaluate that looks the key up before it looks at the outcome.
LLMEvaluate_cache_first(e, s, root_player) ==
    LET terminal == terminal_value(s, root_player)
        key == CacheKey(e, s, root_player)
    IN  IF key \in DOMAIN e.cache
        THEN {EvaluateResult(None, e.cache[key],
                             [e EXCEPT !.stats.cache_hits = @ + 1],
                             key, TRUE, "none", Nothing)}
        ELSE IF terminal # Nothing
        THEN {EvaluateResult(None, terminal[1], e, key, FALSE, "none", Nothing)}
        ELSE {EvaluateResult(None, c.value,
                             [c.ev EXCEPT !.cache = DictPut(@, key, c.value)],
                             key, FALSE, c.remote, c.heuristic) :
                 c \in ComputeOnMiss(e, s, root_player, key)}

\* evaluate without the try around the remote call: its exception leaves
\* evaluate.
LLMEvaluate_no_except(e, s, root_player) ==
    LET terminal == terminal_value(s, root_player)
        key == CacheKey(e, s, root_player)
    IN  IF terminal # Nothing
        THEN {EvaluateResult(None, terminal[1], e, key, FALSE, "none", Nothing)}
        ELSE IF key \in DOMAIN e.cache
        THEN {EvaluateResult(None, e.cache[key],
                             [e EXCEPT !.stats.cache_hits = @ + 1],
                             key, TRUE, "none", Nothing)}
        ELSE {IF c.remote = "failed"
              THEN EvaluateResult("Exception", ValueLoss,
                                  [e EXCEPT !.stats.cache_misses = @ + 1,
                                            !.stats.api_calls = @ + 1],
                                  key, FALSE, c.remote, Nothing)
              ELSE EvaluateResult(None, c.value,
                                  [c.ev EXCEPT !.cache = DictPut(@, key, c.value)],
                                  key, FALSE, c.remote, c.heuristic) :
                 c \in ComputeOnMiss(e, s, root_player, key)}

\* evaluate that computes and stores the value again when the key is in the
\* cache.
LLMEvaluate_refreshes(e, s, root_player) ==
    LET terminal == terminal_value(s, root_player)
        key == CacheKey(e, s, root_player)
    IN  IF terminal # Nothing
        THEN {EvaluateResult(None, terminal[1], e, key, FALSE, "none", Nothing)}
        ELSE IF key \in DOMAIN e.cache
        THEN {EvaluateResult(None, c.value,
                             [c.ev EXCEPT !.cache = DictPut(@, key, c.value),
                                          !.stats.cache_hits = @ + 1,
                                          !.stats.cache_misses = @ - 1],
                             key, TRUE, c.remote, c.heuristic) :
                 c \in ComputeOnMiss(e, s, root_player, key)}
        ELSE {EvaluateResult(None, c.value,
                             [c.ev EXCEPT !.cache = DictPut(@, key, c.value)],
                             key, FALSE, c.remote, c.heuristic) :
                 c \in ComputeOnMiss(e, s, root_player, key)}

\* LLMPositionEvaluator.evaluate: every way the call can go.
LLMEvaluate(e, s, root_player) ==
    LET terminal == terminal_value(s, root_player)
        key == CacheKey(e, s, root_player)
    IN  IF terminal # Nothing
        THEN {EvaluateResult(None, terminal[1], e, key, FALSE, "none", Nothing)}
        ELSE IF key \in DOMAIN e.cache
        THEN {EvaluateResult(None, e.cache[key],
                             [e EXCEPT !.stats.cache_hits = @ + 1],
                             key, TRUE, "none", Nothing)}
        ELSE {EvaluateResult(None, c.value,
                             [c.ev EXCEPT !.cache = DictPut(@, key, c.value)],
                             key, FALSE, c.remote, c.heuristic) :
                 c \in ComputeOnMiss(e, s, root_player, key)}

\* save_cache: nothing without a cache path; else the text is written to a
\* temporary file that then replaces the file
save_cache(e, f) ==
    IF e.cache_path = None
    THEN f
    ELSE FileOf("object", JsonDumps(e.cache))

----------------------------------------------------------------------------
(* evaluators.py: RandomRolloutEvaluator *)

\* RandomRolloutEvaluator.evaluate: the values the rollout can return, one per
\* way self.rng.choice can go.
RECURSIVE RandomRolloutEvaluate(_, _)
RandomRolloutEvaluate(s, root_player) ==
    LET outcome == terminal_outcome(s)
        moves == legal_moves(s)
    IN  IF outcome # None
        THEN {IF outcome = DRAW THEN ValueDraw
              ELSE IF outcome = root_player THEN ValueWin ELSE ValueLoss}
        ELSE UNION {RandomRolloutEvaluate(apply_move(s, moves[k]).value, root_player) :
                       k \in 1..Len(moves)}

\* _winning_moves_for_current_player(state, legal)
_winning_moves_for_current_player(s, legal) ==
    SelectSeq(legal, LAMBDA move :
        terminal_outcome(apply_move(s, move).value) = s.player)

\* _rollout_policy_move(state, rng): the moves it can return, one per way
\* rng.choice can go
_rollout_policy_move(s) ==
    LET legal == legal_moves(s)
        winning == _winning_moves_for_current_player(s, legal)
        safe_moves ==
            SelectSeq(legal, LAMBDA move :
                LET next_state == apply_move(s, move).value
                IN  Len(_winning_moves_for_current_player(
                            next_state, legal_moves(next_state))) = 0)
        candidate_moves == IF Len(safe_moves) > 0 THEN safe_moves ELSE legal
        corners == SelectSeq(candidate_moves, LAMBDA m : m \in {0, 2, 6, 8})
    IN  IF Len(winning) > 0
        THEN {winning[k] : k \in 1..Len(winning)}
        ELSE IF \E k \in 1..Len(candidate_moves) : candidate_moves[k] = 4
        THEN {4}
        ELSE IF Len(corners) > 0
        THEN {corners[k] : k \in 1..Len(corners)}
        ELSE {candidate_moves[k] : k \in 1..Len(candidate_moves)}

\* The loop of a rollout that takes the outcome as the value, whoever the
\* root player is: 1.0 for a win of X.
RolloutReturn_for_x(outcome, root_player) ==
    IF outcome = DRAW THEN ValueDraw
    ELSE IF outcome = PLAYER_X THEN ValueWin ELSE ValueLoss

\* The return of the loop of both rollouts:
\* 0.5 if outcome == DRAW, else 1.0 if outcome == root_player else 0.0
RolloutReturn(outcome, root_player) ==
    IF outcome = DRAW THEN ValueDraw
    ELSE IF outcome = root_player THEN ValueWin ELSE ValueLoss

----------------------------------------------------------------------------
(* mcts.py *)

\* A node of the tree is named by its path: the moves from the root to it.
\* The tree is a function from the paths of its nodes to the nodes.

\* Node(state, parent, move): __post_init__ fills untried_moves
Node(s, parent, move) ==
    [state |-> s, parent |-> parent, move |-> move, children |-> <<>>,
     untried_moves |-> legal_moves(s), visits |-> 0, value_sum |-> 0]

is_terminal(node) == terminal_outcome(node.state) # None

is_fully_expanded(node) == Len(node.untried_moves) = 0

\* value_sum / visits, to the hundredth
mean_value(node) ==
    IF node.visits = 0 THEN 0 ELSE node.value_sum \div node.visits

\* list.pop(0) in the place of list.remove(move): the first element goes.
ListRemove_pops_first(list, x) == Tail(list)

\* list.remove(move): the first occurrence goes
ListRemove(list, x) ==
    LET first == CHOOSE k \in 1..Len(list) :
                    list[k] = x /\ \A j \in 1..(k - 1) : list[j] # x
    IN  [k \in 1..(Len(list) - 1) |-> IF k < first THEN list[k] ELSE list[k + 1]]

\* __init__ that turns down negative budgets only.
MCTSAgent_accepts_zero(evaluator, iterations) ==
    IF iterations < 0
    THEN Raised("ValueError")
    ELSE Returned([evaluator |-> evaluator, iterations |-> iterations,
                   last_decision |-> Nothing])

\* MCTSAgent.__init__
MCTSAgent(evaluator, iterations) ==
    IF iterations <= 0
    THEN Raised("ValueError")
    ELSE Returned([evaluator |-> evaluator, iterations |-> iterations,
                   last_decision |-> Nothing])

\* _select_child.  The score of a child is a float built with math.log and
\* math.sqrt and scaled by the exploration argument, a finite float; among the
\* children of the highest score self.rng chooses.  Every child has been
\* visited when its parent is fully expanded.  The child chosen: any child.
_select_child(tree, path) ==
    {Append(path, tree[path].children[k]) : k \in 1..Len(tree[path].children)}

\* The selection loop left out: the node selected is the root.
Select_stays_at_root(tree, path) == {path}

\* The selection loop of choose_move: the paths of the nodes it can end at.
RECURSIVE Select(_, _)
Select(tree, path) ==
    LET node == tree[path]
    IN  IF ~is_terminal(node) /\ is_fully_expanded(node) /\ Len(node.children) > 0
        THEN UNION {Select(tree, child) : child \in _select_child(tree, path)}
        ELSE {path}

\* The expansion step without the test not node.is_terminal().
Expand_at_terminal(tree, path) ==
    LET node == tree[path]
    IN  IF Len(node.untried_moves) > 0
        THEN {LET move == node.untried_moves[k]
                  child == Append(path, move)
              IN  [path |-> child,
                   tree |-> [p \in (DOMAIN tree) \cup {child} |->
                               IF p = child
                               THEN Node(apply_move(node.state, move).value,
                                         Some(path), Some(move))
                               ELSE IF p = path
                               THEN [node EXCEPT
                                       !.untried_moves = ListRemove(@, move),
                                       !.children = Append(@, move)]
                               ELSE tree[p]]] :
                  k \in 1..Len(node.untried_moves)}
        ELSE {[path |-> path, tree |-> tree]}

\* The expansion step of choose_move at the node selected: the trees it can
\* lead to, each with the path of the node to evaluate.
Expand(tree, path) ==
    LET node == tree[path]
    IN  IF ~is_terminal(node) /\ Len(node.untried_moves) > 0
        THEN {LET move == node.untried_moves[k]
                  child == Append(path, move)
              IN  [path |-> child,
                   tree |-> [p \in (DOMAIN tree) \cup {child} |->
                               IF p = child
                               THEN Node(apply_move(node.state, move).value,
                                         Some(path), Some(move))
                               ELSE IF p = path
                               THEN [node EXCEPT
                                       !.untried_moves = ListRemove(@, move),
                                       !.children = Append(@, move)]
                               ELSE tree[p]]] :
                  k \in 1..Len(node.untried_moves)}
        ELSE {[path |-> path, tree |-> tree]}

\* The paths of the node at path and of the nodes above it, up to the root.
PathToRoot(path) == {SubSeq(path, 1, n) : n \in 0..Len(path)}

\* The backpropagation loop ended at the node below the root
\* (while node.parent is not None).
Backpropagate_skips_root(tree, path, value) ==
    [p \in DOMAIN tree |->
        IF p \in PathToRoot(path) /\ p # <<>>
        THEN [tree[p] EXCEPT !.visits = @ + 1, !.value_sum = @ + value]
        ELSE tree[p]]

\* The backpropagation loop of choose_move: node.parent is followed from the
\* node evaluated until it is None.
Backpropagate(tree, path, value) ==
    [p \in DOMAIN tree |->
        IF p \in PathToRoot(path)
        THEN [tree[p] EXCEPT !.visits = @ + 1, !.value_sum = @ + value]
        ELSE tree[p]]

\* The child ranked first taken to be, of the children with the highest key,
\* the one inserted last.
BestChild_last_created(tree) ==
    LET root == tree[<<>>]
        key(k) == LET c == tree[<<root.children[k]>>]
                  IN  <<c.visits, c.value_sum>>
        above(a, b) == a[1] > b[1] \/ (a[1] = b[1] /\ a[2] * b[1] > b[2] * a[1])
        top == {k \in 1..Len(root.children) :
                   \A j \in 1..Len(root.children) : ~above(key(j), key(k))}
    IN  tree[<<root.children[CHOOSE k \in top : \A j \in top : k >= j]>>]

\* sorted(root.children.values(), key=lambda c: (c.visits, c.mean_value()),
\* reverse=True)[0]: the sort is stable, so of the children with the highest
\* key the one inserted first.
BestChild(tree) ==
    LET root == tree[<<>>]
        key(k) == LET c == tree[<<root.children[k]>>]
                  IN  <<c.visits, c.value_sum>>
        above(a, b) == a[1] > b[1] \/ (a[1] = b[1] /\ a[2] * b[1] > b[2] * a[1])
        top == {k \in 1..Len(root.children) :
                   \A j \in 1..Len(root.children) : ~above(key(j), key(k))}
    IN  tree[<<root.children[CHOOSE k \in top : \A j \in top : k <= j]>>]

\* DecisionStats, without the wall-clock times
DecisionStats(move, visits, estimated_value) ==
    [move |-> move, visits |-> visits, estimated_value |-> estimated_value]

\* The end of choose_move, after the iterations: every way it can go, each
\* with the move returned or the exception raised and last_decision.
Decide(tree, root_state, last_decision) ==
    LET root == tree[<<>>]
        moves == legal_moves(root_state)
    IN  IF Len(root.children) = 0
        THEN IF Len(moves) = 0
             THEN {[error |-> "IndexError", value |-> Nothing,
                    last_decision |-> last_decision]}
             ELSE {[error |-> None, value |-> Some(moves[k]),
                    last_decision |-> Some(DecisionStats(moves[k], 0, ValueDraw))] :
                      k \in 1..Len(moves)}
        ELSE LET best == BestChild(tree)
             IN  {[error |-> None, value |-> best.move,
                   last_decision |->
                       Some(DecisionStats(best.move[1], best.visits,
                                          mean_value(best)))]}

----------------------------------------------------------------------------
(* random.Random(seed), and the objects that own one *)

\* random.Random(seed): what a generator returns is a function of its seed
\* and of the calls made on it so far.  The function is not computed: a
\* generator is its seed with the lengths of the lists its choice() was
\* called with, and oracle.rng holds the index choice() returns for a seed
\* and such a history, fixed when it is first asked for.
Random(seed) == [seed |-> seed, history |-> <<>>]

\* One stream of numbers behind every generator, as the functions of the
\* module random have: what is drawn depends on how much was drawn before,
\* by any object.
RngKey_shared(drawn, rng, n) == <<0, <<Cardinality(DOMAIN drawn)>>>>

\* What the index drawn depends on: the seed and the calls so far on this
\* generator, the one being made included.
RngKey(drawn, rng, n) == <<rng.seed, Append(rng.history, n)>>

\* rng.choice(list) with a list of n > 0 elements: every index it can return,
\* each with the generator after the call
RngChoice(orc, rng, n) ==
    LET key == RngKey(orc.rng, rng, n)
        next == [rng EXCEPT !.history = Append(@, n)]
    IN  IF key \in DOMAIN orc.rng
        THEN {[index |-> orc.rng[key], rng |-> next, orc |-> orc]}
        ELSE {[index |-> k, rng |-> next,
               orc |-> [orc EXCEPT !.rng = DictPut(@, key, k)]] : k \in 1..n}

\* RandomRolloutEvaluator(seed=seed)
RandomRolloutEvaluator(seed) ==
    [kind |-> "RandomRolloutEvaluator", rng |-> Random(seed)]

\* LLMPositionEvaluator(provider="heuristic") as the evaluator of an agent
HeuristicEvaluator ==
    [kind |-> "LLMPositionEvaluator",
     llm |-> LLMPositionEvaluator("heuristic", "gpt-4.1-mini", "", None, AbsentFile)]

\* RandomRolloutEvaluator.evaluate with self.rng: every value it can return,
\* each with the generator after the call
RECURSIVE SeededRolloutEvaluate(_, _, _, _)
SeededRolloutEvaluate(orc, rng, s, root_player) ==
    LET outcome == terminal_outcome(s)
        moves == legal_moves(s)
    IN  IF outcome # None
        THEN {[value |-> IF outcome = DRAW THEN ValueDraw
                         ELSE IF outcome = root_player THEN ValueWin ELSE ValueLoss,
               rng |-> rng, orc |-> orc]}
        ELSE UNION {SeededRolloutEvaluate(c.orc, c.rng,
                                          apply_move(s, moves[c.index]).value,
                                          root_player) :
                       c \in RngChoice(orc, rng, Len(moves))}

\* _heuristic_value seeds its rollouts with sha256 of the key: its value is a
\* function of the key, held in oracle.heuristic once it has been computed.
SeededLLMEvaluate(orc, e, s, root_player) ==
    {[value |-> r.value, ev |-> r.ev,
      orc |-> IF r.heuristic = Nothing THEN orc
              ELSE [orc EXCEPT !.heuristic = DictPut(@, r.key, r.heuristic[1])]] :
        r \in {x \in LLMEvaluate(e, s, root_player) :
                  (x.heuristic # Nothing /\ x.key \in DOMAIN orc.heuristic)
                      => x.heuristic[1] = orc.heuristic[x.key]}}

\* evaluator.evaluate(state, root_player) of either evaluator: every value it
\* can return, each with the evaluator after the call
SeededEvaluate(orc, evaluator, s, root_player) ==
    IF evaluator.kind = "RandomRolloutEvaluator"
    THEN {[value |-> r.value, evaluator |-> [evaluator EXCEPT !.rng = r.rng],
           orc |-> r.orc] :
             r \in SeededRolloutEvaluate(orc, evaluator.rng, s, root_player)}
    ELSE {[value |-> r.value, evaluator |-> [evaluator EXCEPT !.llm = r.ev],
           orc |-> r.orc] :
             r \in SeededLLMEvaluate(orc, evaluator.llm, s, root_player)}

\* MCTSAgent(evaluator=evaluator, iterations=iterations, seed=seed), with
\* self.rng
SeededMCTSAgent(evaluator, iterations, seed) ==
    IF MCTSAgent(evaluator.kind, iterations).error # None
    THEN MCTSAgent(evaluator.kind, iterations)
    ELSE Returned([evaluator |-> evaluator, iterations |-> iterations,
                   rng |-> Random(seed), last_decision |-> Nothing])

\* What the scores of _select_child depend on: visits and value_sum of the
\* children in the order of node.children, the visits of the node, whether
\* the node's player is the root player.  self.exploration is the default.
UcbKey(tree, path, root_player) ==
    LET node == tree[path]
    IN  <<[k \in 1..Len(node.children) |->
              <<tree[Append(path, node.children[k])].visits,
                tree[Append(path, node.children[k])].value_sum>>],
          node.visits, node.state.player = root_player>>

\* best_children of _select_child, as positions in node.children: the floats
\* are not computed, the children of the highest score are any that
\* oracle.ucb holds for these counts once they have been scored.
BestChildren(orc, tree, path, root_player) ==
    LET key == UcbKey(tree, path, root_player)
        n == Len(tree[path].children)
    IN  IF key \in DOMAIN orc.ucb
        THEN {[best |-> orc.ucb[key], orc |-> orc]}
        ELSE {[best |-> b, orc |-> [orc EXCEPT !.ucb = DictPut(@, key, b)]] :
                 b \in (SUBSET (1..n)) \ {{}}}

\* The j-th of a set of positions, in ascending order
Nth(S, j) == CHOOSE x \in S : Cardinality({y \in S : y <= x}) = j

\* _select_child with self.rng: self.rng.choice(best_children)
Seeded_select_child(orc, rng, tree, path, root_player) ==
    UNION {{[path |-> Append(path, tree[path].children[Nth(b.best, c.index)]),
             rng |-> c.rng, orc |-> c.orc] :
               c \in RngChoice(b.orc, rng, Cardinality(b.best))} :
             b \in BestChildren(orc, tree, path, root_player)}

\* The selection loop of choose_move with self.rng
RECURSIVE SeededSelect(_, _, _, _, _)
SeededSelect(orc, rng, tree, path, root_player) ==
    LET node == tree[path]
    IN  IF ~is_terminal(node) /\ is_fully_expanded(node) /\ Len(node.children) > 0
        THEN UNION {SeededSelect(c.orc, c.rng, tree, c.path, root_player) :
                       c \in Seeded_select_child(orc, rng, tree, path, root_player)}
        ELSE {[path |-> path, rng |-> rng, orc |-> orc]}

\* The expansion step of choose_move with self.rng:
\* move = self.rng.choice(node.untried_moves)
SeededExpand(orc, rng, tree, path) ==
    LET node == tree[path]
    IN  IF ~is_terminal(node) /\ Len(node.untried_moves) > 0
        THEN UNION {{[path |-> x.path, tree |-> x.tree, rng |-> c.rng, orc |-> c.orc] :
                        x \in {y \in Expand(tree, path) :
                                  y.path = Append(path, node.untried_moves[c.index])}} :
                       c \in RngChoice(orc, rng, Len(node.untried_moves))}
        ELSE {[path |-> path, tree |-> tree, rng |-> rng, orc |-> orc]}

\* One iteration of the loop of choose_move of an agent with self.rng and its
\* own evaluator
SeededIteration(orc, a, tree, root_player) ==
    UNION {UNION {{[agent |-> [a EXCEPT !.rng = x.rng, !.evaluator = r.evaluator],
                    tree |-> Backpropagate(x.tree, x.path, r.value),
                    orc |-> r.orc] :
                      r \in SeededEvaluate(x.orc, a.evaluator, x.tree[x.path].state,
                                           root_player)} :
                    x \in SeededExpand(sel.orc, sel.rng, tree, sel.path)} :
             sel \in SeededSelect(orc, a.rng, tree, <<>>, root_player)}

\* The loop of choose_move from iteration done on
RECURSIVE SeededIterations(_, _, _, _, _)
SeededIterations(orc, a, tree, root_player, done) ==
    IF done = a.iterations
    THEN {[agent |-> a, tree |-> tree, orc |-> orc]}
    ELSE UNION {SeededIterations(x.orc, x.agent, x.tree, root_player, done + 1) :
                   x \in SeededIteration(orc, a, tree, root_player)}

\* The end of choose_move with self.rng: without children of the root,
\* self.rng.choice(legal_moves(root_state))
SeededDecide(orc, a, tree, root_state) ==
    LET moves == legal_moves(root_state)
    IN  IF Len(tree[<<>>].children) = 0 /\ Len(moves) > 0
        THEN {[error |-> None, value |-> Some(moves[c.index]),
               agent |-> [a EXCEPT !.rng = c.rng,
                            !.last_decision =
                                Some(DecisionStats(moves[c.index], 0, ValueDraw))],
               orc |-> c.orc] :
                 c \in RngChoice(orc, a.rng, Len(moves))}
        ELSE {[error |-> d.error, value |-> d.value,
               agent |-> [a EXCEPT !.last_decision = d.last_decision],
               orc |-> orc] :
                 d \in Decide(tree, root_state, a.last_decision)}

\* choose_move(root_state) of an agent with self.rng and its own evaluator:
\* every way the call can go, each with the move returned or the exception
\* raised and the agent after the call
SeededChooseMove(orc, a, root_state) ==
    UNION {SeededDecide(x.orc, x.agent, x.tree, root_state) :
              x \in SeededIterations(orc, a, (<<>> :> Node(root_state, Nothing, Nothing)),
                                     root_state.player, 0)}

----------------------------------------------------------------------------
(* The game loop of experiment.py (play_game) with any agent, and direct    *)
(* calls of apply_move with any integer move.                               *)

\* How far outside 0..8 the moves handed to apply_move range.
MaxOffBoard == 2

MoveInputs == (0 - MaxOffBoard)..(8 + MaxOffBoard)

NoCall ==
    [caller |-> None, arg |-> Nothing, move |-> Nothing, error |-> None,
     value |-> Nothing, input |-> Nothing]

CallOf(caller, s, move) ==
    LET r == apply_move(s, move)
    IN  [caller |-> caller, arg |-> s, move |-> move, error |-> r.error,
         value |-> r.value, input |-> r.input]

\* opposite: what minimax_value returned for the same state and the other
\* perspective, when it was called for both.
NoSolve ==
    [caller |-> None, arg |-> Nothing, perspective |-> None, value |-> Nothing,
     opposite |-> Nothing]

NoDecision ==
    [caller |-> None, arg |-> Nothing, choices |-> <<>>, error |-> None,
     move |-> Nothing, value |-> Nothing]

NoEval ==
    [caller |-> None, state |-> Nothing, root_player |-> None, key |-> <<>>,
     error |-> None, value |-> Nothing, hit |-> FALSE, remote |-> "none",
     heuristic |-> Nothing, before |-> NewStats, after |-> NewStats]

\* Of the call before the last one, the arguments and the result are kept.
NoPrevEval ==
    [caller |-> None, state |-> Nothing, root_player |-> None,
     value |-> Nothing, hit |-> FALSE]

Earlier(e) ==
    [caller |-> e.caller, state |-> e.state, root_player |-> e.root_player,
     value |-> e.value, hit |-> e.hit]

NoSave == [written |-> FALSE, cache |-> EmptyDict, reloaded |-> FALSE]

\* iterations: the argument the constructor was last called with.
NoAgent == [error |-> None, object |-> Nothing, iterations |-> Nothing]

\* Of the last iteration of the loop of choose_move: the node the selection
\* loop ended at, the node handed to evaluate, the root_player handed to
\* evaluate and the value it returned.
NoIteration ==
    [selected |-> Nothing, evaluated |-> Nothing, root_player |-> None,
     value |-> Nothing]

NoSearch ==
    [pc |-> "idle", root_state |-> Nothing, tree |-> <<>>, done |-> 0,
     error |-> None, value |-> Nothing, last |-> NoIteration]

\* No objects have been constructed side by side.
NoTwin ==
    [kind |-> None, first |-> Nothing, second |-> Nothing, calls |-> <<>>,
     first_results |-> <<>>, second_results |-> <<>>]

\* Nothing has been asked of the generators, the scores or the heuristic.
NoOracle == [rng |-> EmptyDict, ucb |-> EmptyDict, heuristic |-> EmptyDict]

\* A thread that has not called evaluate.  missed: the call found its key
\* absent from the cache; value: the local variable value; result: what the
\* call returned.
NoThread ==
    [pc |-> "idle", state |-> Nothing, root_player |-> None, key |-> Nothing,
     missed |-> FALSE, value |-> Nothing, result |-> Nothing]

Threads == {1, 2}
NoThreads == [t \in Threads |-> NoThread]

\* No rollout has been started.  kind: the class whose loop runs; moves: how
\* many times the loop has called apply_move.
NoRollout ==
    [pc |-> "idle", kind |-> None, start |-> Nothing, root_player |-> None,
     sim |-> Nothing, moves |-> 0, error |-> None, value |-> Nothing]

\* The agents of the game are not named: any agent moves for either side.
NoPlayers == [X |-> None, O |-> None]

\* No evaluator is in use.
EvalIdle ==
    /\ ev = LLMPositionEvaluator("heuristic", "gpt-4.1-mini", "", None, AbsentFile)
    /\ file = AbsentFile
    /\ prevEval = NoPrevEval
    /\ lastEval = NoEval
    /\ saved = NoSave

Init ==
    /\ state = initial_state
    /\ call = NoCall
    /\ solved = NoSolve
    /\ decision = NoDecision
    /\ EvalIdle
    /\ agent = NoAgent
    /\ search = NoSearch
    /\ twin = NoTwin
    /\ oracle = NoOracle
    /\ players = NoPlayers
    /\ rollout = NoRollout
    /\ threads = NoThreads

\* play_game: while the state is not terminal, the agent to move chooses a
\* legal move and the state advances.
PlayMove ==
    /\ terminal_outcome(state) = None
    /\ \E k \in 1..Len(legal_moves(state)) :
          LET move == legal_moves(state)[k]
          IN  /\ call' = CallOf("play_game", state, move)
              /\ state' = call'.value
    /\ UNCHANGED <<minimaxVars, evalVars, mctsVars, seedVars, players, rollout, threads>>

\* apply_move called with any integer on the current state; the game does not
\* advance.
CallApplyMove ==
    /\ \E move \in MoveInputs : call' = CallOf("direct", state, move)
    /\ state' = call'.input
    /\ UNCHANGED <<minimaxVars, evalVars, mctsVars, seedVars, players, rollout, threads>>

Next == PlayMove \/ CallApplyMove

Spec == Init /\ [][Next]_vars

----------------------------------------------------------------------------
(* Games in which MinimaxAgent (experiment.py) plays either side against    *)
(* any other agent, and the solver's test of the initial state.             *)

\* MinimaxAgent is asked for a move on states with at most this many empty
\* cells; with more, the other agent moves.
MaxSolveEmpties == 5

\* test_minimax.py, test_initial_state_value_is_draw
TestInitialStateValue ==
    /\ state = initial_state
    /\ solved = NoSolve
    /\ solved' = [caller |-> "test_initial_state_value_is_draw",
                  arg |-> initial_state, perspective |-> PLAYER_X,
                  value |-> Some(minimax_value(initial_state, PLAYER_X)),
                  opposite |-> Nothing]
    /\ UNCHANGED <<state, call, decision, evalVars, mctsVars, seedVars, players, rollout, threads>>

\* MinimaxAgent.choose_move: choose_perfect_move(state, self.rng)
MinimaxChooseMove ==
    /\ decision.caller = None
    /\ terminal_outcome(state) = None
    /\ Len(legal_moves(state)) <= MaxSolveEmpties
    /\ \E choices \in {best_moves(state)} :
       \E r \in choose_perfect_move(state) :
          decision' = [caller |-> "MinimaxAgent", arg |-> state,
                       choices |-> choices, error |-> r.error,
                       move |-> IF r.error = None THEN Some(r.value[1]) ELSE Nothing,
                       value |-> IF r.error = None THEN Some(r.value[2]) ELSE Nothing]
    /\ UNCHANGED <<state, call, solved, evalVars, mctsVars, seedVars, players, rollout, threads>>

\* play_game: state = apply_move(state, move) with the move MinimaxAgent chose
PlayChosenMove ==
    /\ decision.caller = "MinimaxAgent"
    /\ decision.error = None
    /\ state' = apply_move(state, decision.move[1]).value
    /\ decision' = NoDecision
    /\ UNCHANGED <<call, solved, evalVars, mctsVars, seedVars, players, rollout, threads>>

\* play_game with another agent to move: any legal move
PlayOtherAgent ==
    /\ decision.caller = None
    /\ search.pc = "idle"
    /\ terminal_outcome(state) = None
    /\ \E k \in 1..Len(legal_moves(state)) :
          state' = apply_move(state, legal_moves(state)[k]).value
    /\ UNCHANGED <<call, solved, decision, evalVars, mctsVars, seedVars, players, rollout, threads>>

\* minimax_value(state, perspective) called on a state in which the game is
\* over, outside play_game
MinimaxValueOnTerminalState ==
    /\ terminal_outcome(state) # None
    /\ \E perspective \in {PLAYER_X, PLAYER_O} :
          solved' = [caller |-> "direct", arg |-> state,
                     perspective |-> perspective,
                     value |-> Some(minimax_value(state, perspective)),
                     opposite |-> Nothing]
    /\ UNCHANGED <<state, call, decision, evalVars, mctsVars, seedVars, players, rollout, threads>>

\* choose_perfect_move(state, rng) called on a state in which the game is
\* over, outside play_game
ChoosePerfectMoveOnTerminalState ==
    /\ decision.caller = None
    /\ terminal_outcome(state) # None
    /\ \E r \in choose_perfect_move(state) :
          decision' = [caller |-> "direct", arg |-> state,
                       choices |-> best_moves(state), error |-> r.error,
                       move |-> IF r.error = None THEN Some(r.value[1]) ELSE Nothing,
                       value |-> IF r.error = None THEN Some(r.value[2]) ELSE Nothing]
    /\ UNCHANGED <<state, call, solved, evalVars, mctsVars, seedVars, players, rollout, threads>>

NextMinimax ==
    \/ TestInitialStateValue
    \/ MinimaxValueOnTerminalState
    \/ ChoosePerfectMoveOnTerminalState
    \/ MinimaxChooseMove
    \/ PlayChosenMove
    \/ PlayOtherAgent

SpecMinimax == Init /\ [][NextMinimax]_vars

----------------------------------------------------------------------------
(* minimax_value called for both perspectives on a state of a game between  *)
(* any two agents.                                                          *)

\* minimax_value is called for both perspectives on states with at most this
\* many empty cells.
MaxValueEmpties == 8

\* play_game between any two agents, while minimax_value has not been called
PlayBeforeSolving ==
    /\ solved = NoSolve
    /\ PlayOtherAgent

\* minimax_value(state, "O") and then minimax_value(state, "X"), on a state
\* with at most MaxValueEmpties empty cells
MinimaxValueOfBothPlayers ==
    /\ solved = NoSolve
    /\ Len(legal_moves(state)) <= MaxValueEmpties
    /\ solved' = [caller |-> "direct", arg |-> state, perspective |-> PLAYER_X,
                  value |-> Some(minimax_value(state, PLAYER_X)),
                  opposite |-> Some(minimax_value(state, PLAYER_O))]
    /\ UNCHANGED <<state, call, decision, evalVars, mctsVars, seedVars, players, rollout, threads>>

NextZeroSum == PlayBeforeSolving \/ MinimaxValueOfBothPlayers

SpecZeroSum == Init /\ [][NextZeroSum]_vars

----------------------------------------------------------------------------
(* play_game(agent_x, agent_o) in which one agent or both are MinimaxAgents *)
(* and the other is any agent.                                              *)

InitPerfect ==
    /\ state = initial_state
    /\ call = NoCall
    /\ solved = NoSolve
    /\ decision = NoDecision
    /\ EvalIdle
    /\ agent = NoAgent
    /\ search = NoSearch
    /\ twin = NoTwin
    /\ oracle = NoOracle
    /\ players \in {[X |-> "MinimaxAgent", O |-> "any"],
                    [X |-> "any", O |-> "MinimaxAgent"],
                    [X |-> "MinimaxAgent", O |-> "MinimaxAgent"]}
    /\ rollout = NoRollout
    /\ threads = NoThreads

\* play_game: the agent to move is a MinimaxAgent;
\* MinimaxAgent.choose_move: choose_perfect_move(state, self.rng)
MinimaxAgentChoosesMove ==
    /\ decision.caller = None
    /\ terminal_outcome(state) = None
    /\ players[state.player] = "MinimaxAgent"
    /\ \E choices \in {best_moves(state)} :
       \E r \in choose_perfect_move(state) :
          decision' = [caller |-> "MinimaxAgent", arg |-> state,
                       choices |-> choices, error |-> r.error,
                       move |-> IF r.error = None THEN Some(r.value[1]) ELSE Nothing,
                       value |-> IF r.error = None THEN Some(r.value[2]) ELSE Nothing]
    /\ UNCHANGED <<state, call, solved, evalVars, mctsVars, seedVars, players, rollout, threads>>

\* play_game: the agent to move is the other agent
OtherAgentMoves ==
    /\ players[state.player] = "any"
    /\ PlayOtherAgent

NextPerfect ==
    \/ MinimaxAgentChoosesMove
    \/ PlayChosenMove
    \/ OtherAgentMoves

SpecPerfect == InitPerfect /\ [][NextPerfect]_vars

----------------------------------------------------------------------------
(* One rollout of RandomRolloutEvaluator.evaluate or of                     *)
(* LLMPositionEvaluator._guided_rollout, started on a state of a game.      *)

\* Rollouts are started on states with at most this many empty cells.
MaxRolloutEmpties == 3

\* play_game between any two agents, while no rollout has been started
PlayBeforeRollout ==
    /\ rollout.pc = "idle"
    /\ PlayOtherAgent

\* RandomRolloutEvaluator.evaluate(state, root_player) past the terminal
\* test, or _guided_rollout(state, root_player, rng), on a state in which the
\* game goes on: sim = state
BeginRollout ==
    /\ rollout.pc = "idle"
    /\ terminal_outcome(state) = None
    /\ Len(legal_moves(state)) <= MaxRolloutEmpties
    /\ \E kind \in {"RandomRolloutEvaluator", "LLMPositionEvaluator"},
          root_player \in {PLAYER_X, PLAYER_O} :
          rollout' = [pc |-> "looping", kind |-> kind, start |-> state,
                      root_player |-> root_player, sim |-> state, moves |-> 0,
                      error |-> None, value |-> Nothing]
    /\ UNCHANGED <<gameVars, minimaxVars, evalVars, mctsVars, seedVars, players, threads>>

\* The moves the loop can take in sim: self.rng.choice(legal_moves(sim)), or
\* self._rollout_policy_move(sim, rng)
RolloutMoves(kind, sim) ==
    IF kind = "RandomRolloutEvaluator"
    THEN {legal_moves(sim)[k] : k \in 1..Len(legal_moves(sim))}
    ELSE _rollout_policy_move(sim)

\* One pass of the loop "while True": the value is returned when sim is
\* terminal, else a move is taken and applied to sim
RolloutStep ==
    /\ rollout.pc = "looping"
    /\ LET outcome == terminal_outcome(rollout.sim)
       IN  IF outcome # None
           THEN rollout' = [rollout EXCEPT
                               !.pc = "returned",
                               !.value = Some(RolloutReturn(outcome, rollout.root_player))]
           ELSE \E move \in RolloutMoves(rollout.kind, rollout.sim) :
                   LET r == apply_move(rollout.sim, move)
                   IN  rollout' = IF r.error # None
                                  THEN [rollout EXCEPT !.pc = "raised", !.error = r.error]
                                  ELSE [rollout EXCEPT !.sim = r.value, !.moves = @ + 1]
    /\ UNCHANGED <<gameVars, minimaxVars, evalVars, mctsVars, seedVars, players, threads>>

NextRollout == PlayBeforeRollout \/ BeginRollout \/ RolloutStep

SpecRollout == Init /\ [][NextRollout]_vars

\* The loop runs on: a call that has been made returns or keeps stepping.
FairSpecRollout == SpecRollout /\ WF_vars(RolloutStep)

----------------------------------------------------------------------------
(* One LLMPositionEvaluator in use: calls of evaluate and of save_cache, and *)
(* a fresh evaluator constructed with the same arguments.                   *)

\* The calls of evaluate that reach the cache, per evaluator object.
MaxEvalCalls == 2

BoardOf(xs, os) ==
    [i \in Cells |-> IF i \in xs THEN PLAYER_X ELSE IF i \in os THEN PLAYER_O ELSE EMPTY]

\* The states handed to evaluate: the state of test_llm_evaluator_cache_is_used,
\* the drawn board of test_winner_and_draw and a board X has won with cells
\* left, both terminal.
OpenState == GameState(BoardOf({0}, {4}), PLAYER_X)
DrawnState == GameState(BoardOf({0, 2, 3, 7, 8}, {1, 4, 5, 6}), PLAYER_X)
WonState == GameState(BoardOf({0, 1, 2}, {3, 4}), PLAYER_O)

EvalStates == {OpenState, DrawnState, WonState}

\* The states handed to RandomRolloutEvaluator: the terminal ones and the
\* state of test_single_legal_move.
RolloutStates ==
    {DrawnState, WonState, GameState(BoardOf({0, 2, 3, 7}, {1, 4, 5, 6}), PLAYER_X)}

\* The cache files found at the start by an evaluator of the provider:
\* none; files that cannot be read or parsed, or hold no object; an object
\* with a number and a value float() turns down; objects with a string that
\* spells a number, with null, with a number above 1.0, and with numbers
\* under the keys of a terminal state and of the open state.
InitialFiles(provider) ==
    LET model == "gpt-4.1-mini"
        open == KeyOf(provider, model, PLAYER_X, OpenState)
        drawn == KeyOf(provider, model, PLAYER_X, DrawnState)
    IN  {AbsentFile,
         FileOf("unreadable", {}),
         FileOf("garbage", {}),
         FileOf("array", {}),
         FileOf("object", {<<open, <<"0", ".", "3">> >>,
                           <<drawn, <<"\"", "a", "b", "c", "\"">> >>}),
         FileOf("object", {<<open, <<"\"", "0", ".", "5", "\"">> >>}),
         FileOf("object", {<<open, <<"n", "u", "l", "l">> >>}),
         FileOf("object", {<<open, <<"7", ".", "5">> >>}),
         FileOf("object", {<<open, <<"0", ".", "3">> >>,
                           <<drawn, <<"0", ".", "3">> >>})}

InitEval ==
    /\ state = initial_state
    /\ call = NoCall
    /\ solved = NoSolve
    /\ decision = NoDecision
    /\ \E args \in {<<"heuristic", "">>, <<" OpenAI ", "">>, <<" OpenAI ", "sk-test">>},
          cache_path \in {None, "cache.json"} :
          /\ file \in IF cache_path # None /\ args[1] = "heuristic"
                       THEN InitialFiles("heuristic")
                       ELSE {AbsentFile}
          /\ ev = LLMPositionEvaluator(args[1], "gpt-4.1-mini", args[2], cache_path, file)
    /\ prevEval = NoPrevEval
    /\ lastEval = NoEval
    /\ saved = NoSave
    /\ agent = NoAgent
    /\ search = NoSearch
    /\ twin = NoTwin
    /\ oracle = NoOracle
    /\ players = NoPlayers
    /\ rollout = NoRollout
    /\ threads = NoThreads

\* evaluator.evaluate(state, root_player)
Evaluate ==
    /\ ev.stats.cache_hits + ev.stats.cache_misses < MaxEvalCalls
    /\ \E s \in EvalStates, root_player \in {PLAYER_X, PLAYER_O} :
          \E r \in LLMEvaluate(ev, s, root_player) :
              /\ ev' = r.ev
              /\ prevEval' = Earlier(lastEval)
              /\ lastEval' = [caller |-> "evaluate", state |-> s,
                              root_player |-> root_player, key |-> r.key,
                              error |-> r.error,
                              value |-> IF r.error = None THEN Some(r.value)
                                        ELSE Nothing,
                              hit |-> r.hit, remote |-> r.remote,
                              heuristic |-> r.heuristic,
                              before |-> ev.stats, after |-> r.ev.stats]
    /\ UNCHANGED <<gameVars, minimaxVars, mctsVars, file, saved, seedVars, players, rollout, threads>>

\* RandomRolloutEvaluator(seed).evaluate(state, root_player), any seed.  The
\* object shares nothing with the LLMPositionEvaluator, so its calls are
\* taken before the calls of that evaluator, not between them.
RolloutEvaluate ==
    /\ lastEval.caller # "evaluate"
    /\ \E s \in RolloutStates, root_player \in {PLAYER_X, PLAYER_O} :
          \E v \in RandomRolloutEvaluate(s, root_player) :
              /\ prevEval' = Earlier(lastEval)
              /\ lastEval' = [NoEval EXCEPT
                                 !.caller = "RandomRolloutEvaluator.evaluate",
                                 !.state = s, !.root_player = root_player,
                                 !.value = Some(v),
                                 !.before = ev.stats, !.after = ev.stats]
    /\ UNCHANGED <<gameVars, minimaxVars, mctsVars, ev, file, saved, seedVars, players, rollout, threads>>

\* evaluator.save_cache()
SaveCache ==
    /\ file' = save_cache(ev, file)
    /\ saved' = IF ev.cache_path = None
                THEN saved
                ELSE [written |-> TRUE, cache |-> ev.cache, reloaded |-> FALSE]
    /\ UNCHANGED <<gameVars, minimaxVars, mctsVars, ev, prevEval, lastEval, seedVars, players, rollout, threads>>

\* LLMPositionEvaluator(provider, model, api_key, cache_path): a fresh object
\* with the arguments of the one in use, which is dropped
NewEvaluator ==
    /\ ev' = LLMPositionEvaluator(ev.provider, ev.model, ev.api_key, ev.cache_path, file)
    /\ prevEval' = NoPrevEval
    /\ lastEval' = NoEval
    /\ saved' = [saved EXCEPT !.reloaded = saved.written]
    /\ UNCHANGED <<gameVars, minimaxVars, mctsVars, file, seedVars, players, rollout, threads>>

NextEval == Evaluate \/ RolloutEvaluate \/ SaveCache \/ NewEvaluator

SpecEval == InitEval /\ [][NextEval]_vars

----------------------------------------------------------------------------
(* Games in which an MCTSAgent plays either side against any other agent.   *)

\* The largest iteration budget an agent is constructed with.
MaxIterations == 3

\* The agent is asked for a move on states with at most this many empty
\* cells; with more, the other agent moves.
MaxRootEmpties == 1

\* MCTSAgent(evaluator=..., iterations=n), before the game starts
ConstructAgent ==
    /\ agent.object = Nothing
    /\ state = initial_state
    /\ \E n \in (0 - 1)..MaxIterations :
       \E args \in {<<"RandomRolloutEvaluator", "", "">>,
                    <<"LLMPositionEvaluator", "heuristic", "">>,
                    <<"LLMPositionEvaluator", "openai", "sk-test">>} :
          /\ ev' = IF args[1] = "LLMPositionEvaluator"
                   THEN LLMPositionEvaluator(args[2], "gpt-4.1-mini", args[3], None, file)
                   ELSE ev
          /\ agent' = [error |-> MCTSAgent(args[1], n).error,
                       object |-> MCTSAgent(args[1], n).value,
                       iterations |-> Some(n)]
    /\ UNCHANGED <<gameVars, minimaxVars, file, prevEval, lastEval, saved, search, seedVars, players, rollout, threads>>

\* choose_move up to the loop: root = Node(root_state)
BeginChooseMove ==
    /\ agent.object # Nothing
    /\ search.pc = "idle"
    /\ terminal_outcome(state) = None
    /\ Len(legal_moves(state)) <= MaxRootEmpties
    /\ search' = [pc |-> "iterating", root_state |-> state,
                  tree |-> (<<>> :> Node(state, Nothing, Nothing)), done |-> 0,
                  error |-> None, value |-> Nothing, last |-> NoIteration]
    /\ UNCHANGED <<gameVars, minimaxVars, evalVars, agent, seedVars, players, rollout, threads>>

\* choose_move called on a state in which the game is over, outside play_game
BeginChooseMoveOnTerminalState ==
    /\ agent.object # Nothing
    /\ search.pc = "idle"
    /\ terminal_outcome(state) # None
    /\ search' = [pc |-> "iterating", root_state |-> state,
                  tree |-> (<<>> :> Node(state, Nothing, Nothing)), done |-> 0,
                  error |-> None, value |-> Nothing, last |-> NoIteration]
    /\ UNCHANGED <<gameVars, minimaxVars, evalVars, agent, seedVars, players, rollout, threads>>

\* test_mcts.py, test_agent_blocks_forced_loss:  X X . / O . . / . O .  with O
\* to move, handed to choose_move of a fresh agent, outside any game
ForcedBlockState == GameState(BoardOf({0, 1}, {3, 7}), PLAYER_O)

BeginChooseMoveOnTestState ==
    /\ agent.object # Nothing
    /\ agent.object.last_decision = Nothing
    /\ state = initial_state
    /\ search.pc = "idle"
    /\ search' = [pc |-> "iterating", root_state |-> ForcedBlockState,
                  tree |-> (<<>> :> Node(ForcedBlockState, Nothing, Nothing)),
                  done |-> 0, error |-> None, value |-> Nothing,
                  last |-> NoIteration]
    /\ UNCHANGED <<gameVars, minimaxVars, evalVars, agent, seedVars, players, rollout, threads>>

\* self.evaluator.evaluate(node.state, root_player=root_state.player): every
\* way the call can go, each with the value and the evaluator after it
AgentEvaluate(s, root_player) ==
    IF agent.object.evaluator = "RandomRolloutEvaluator"
    THEN {[error |-> None, value |-> v, ev |-> ev] :
             v \in RandomRolloutEvaluate(s, root_player)}
    ELSE {[error |-> r.error, value |-> r.value, ev |-> r.ev] :
             r \in LLMEvaluate(ev, s, root_player)}

\* root_player=node.state.player: the perspective of the player to move at
\* the node evaluated.
root_player_of_node(root_state, node) == node.state.player

\* root_player=root_state.player, the keyword argument of
\* self.evaluator.evaluate(node.state, root_player=root_state.player)
root_player_of(root_state, node) == root_state.player

\* One iteration of the loop of choose_move: selection, expansion,
\* evaluation, backpropagation; an exception of evaluate leaves choose_move
Iterate ==
    /\ search.pc = "iterating"
    /\ search.done < agent.object.iterations
    /\ \E selected \in Select(search.tree, <<>>) :
       \E x \in Expand(search.tree, selected) :
       \E r \in AgentEvaluate(x.tree[x.path].state,
                              root_player_of(search.root_state, x.tree[x.path])) :
          /\ search' = IF r.error # None
                       THEN [search EXCEPT
                               !.pc = "returned", !.tree = x.tree,
                               !.error = r.error,
                               !.last = [selected |-> Some(selected),
                                         evaluated |-> Some(x.path),
                                         root_player |->
                                             root_player_of(search.root_state,
                                                            x.tree[x.path]),
                                         value |-> Nothing]]
                       ELSE [search EXCEPT
                               !.tree = Backpropagate(x.tree, x.path, r.value),
                               !.done = @ + 1,
                               !.last = [selected |-> Some(selected),
                                         evaluated |-> Some(x.path),
                                         root_player |->
                                             root_player_of(search.root_state,
                                                            x.tree[x.path]),
                                         value |-> Some(r.value)]]
          /\ ev' = r.ev
    /\ UNCHANGED <<gameVars, minimaxVars, file, prevEval, lastEval, saved, agent, seedVars, players, rollout, threads>>

\* choose_move after the loop: the move is returned and last_decision set
FinishChooseMove ==
    /\ search.pc = "iterating"
    /\ search.done = agent.object.iterations
    /\ \E d \in Decide(search.tree, search.root_state, agent.object.last_decision) :
          /\ search' = [search EXCEPT !.pc = "returned", !.error = d.error,
                                      !.value = d.value]
          /\ agent' = [agent EXCEPT !.object.last_decision = d.last_decision]
    /\ UNCHANGED <<gameVars, minimaxVars, evalVars, seedVars, players, rollout, threads>>

\* play_game: state = apply_move(state, move) with the move the agent returned
PlayReturnedMove ==
    /\ search.pc = "returned"
    /\ search.error = None
    /\ search.root_state = state
    /\ terminal_outcome(state) = None
    /\ state' = apply_move(state, search.value[1]).value
    /\ search' = NoSearch
    /\ UNCHANGED <<call, minimaxVars, evalVars, agent, seedVars, players, rollout, threads>>

NextMCTS ==
    \/ ConstructAgent
    \/ BeginChooseMove
    \/ BeginChooseMoveOnTerminalState
    \/ BeginChooseMoveOnTestState
    \/ Iterate
    \/ FinishChooseMove
    \/ PlayReturnedMove
    \/ PlayOtherAgent

SpecMCTS == Init /\ [][NextMCTS]_vars

----------------------------------------------------------------------------
(* An LLMPositionEvaluator of the openai provider, with and without an API  *)
(* key: direct calls of evaluate, and an MCTSAgent searching with it.       *)

InitFallback ==
    /\ state = initial_state
    /\ call = NoCall
    /\ solved = NoSolve
    /\ decision = NoDecision
    /\ file = AbsentFile
    /\ \E api_key \in {"", "sk-test"} :
          ev = LLMPositionEvaluator("openai", "gpt-4.1-mini", api_key, None, file)
    /\ prevEval = NoPrevEval
    /\ lastEval = NoEval
    /\ saved = NoSave
    /\ agent = NoAgent
    /\ search = NoSearch
    /\ twin = NoTwin
    /\ oracle = NoOracle
    /\ players = NoPlayers
    /\ rollout = NoRollout
    /\ threads = NoThreads

\* evaluator.evaluate(state, root_player) called directly, while no agent
\* holds the evaluator
EvaluateDirectly ==
    /\ agent.object = Nothing
    /\ Evaluate

\* MCTSAgent(evaluator=evaluator, iterations=n) with the evaluator, not used
\* so far
ConstructAgentWithEvaluator ==
    /\ agent.object = Nothing
    /\ lastEval = NoEval
    /\ \E n \in 1..MaxIterations :
          agent' = [error |-> MCTSAgent("LLMPositionEvaluator", n).error,
                    object |-> MCTSAgent("LLMPositionEvaluator", n).value,
                    iterations |-> Some(n)]
    /\ UNCHANGED <<gameVars, minimaxVars, evalVars, search, seedVars, players, rollout, threads>>

NextFallback ==
    \/ EvaluateDirectly
    \/ ConstructAgentWithEvaluator
    \/ BeginChooseMoveOnTestState
    \/ Iterate
    \/ FinishChooseMove

SpecFallback == InitFallback /\ [][NextFallback]_vars

----------------------------------------------------------------------------
(* Two RandomRolloutEvaluators, or two MCTSAgents each with an evaluator of *)
(* its own, constructed independently and handed the same calls.            *)

\* The seeds the objects are constructed with.
Seeds == {1, 2}

\* How many calls are made on each of the two objects.
MaxTwinCalls == 2

\* A board X has won with cells left empty is WonState; the state of
\* test_single_legal_move, and that state with the last move and with the
\* last two moves taken back:
OneLeftState == GameState(BoardOf({0, 2, 3, 7}, {1, 4, 5, 6}), PLAYER_X)
TwoLeftState == GameState(BoardOf({0, 2, 3, 7}, {1, 4, 5}), PLAYER_O)
ThreeLeftState == GameState(BoardOf({0, 2, 3}, {1, 4, 5}), PLAYER_X)

\* The states handed to both evaluators.
TwinStates == {WonState, TwoLeftState, ThreeLeftState}

\* The root states handed to both agents.
TwinRoots == {WonState, OneLeftState, TwoLeftState}

\* RandomRolloutEvaluator(seed=a) and RandomRolloutEvaluator(seed=b); of two
\* seeds that differ the first evaluator has the smaller
ConstructTwoEvaluators ==
    /\ twin.kind = None
    /\ \E a \in Seeds, b \in Seeds :
          /\ a <= b
          /\ twin' = [NoTwin EXCEPT !.kind = "RandomRolloutEvaluator",
                                 !.first = Some(RandomRolloutEvaluator(a)),
                                 !.second = Some(RandomRolloutEvaluator(b))]
    /\ UNCHANGED <<gameVars, minimaxVars, evalVars, mctsVars, oracle, players, rollout, threads>>

\* The evaluator an agent is constructed with: a RandomRolloutEvaluator of any
\* seed or an LLMPositionEvaluator of the heuristic provider.
AgentEvaluators == {RandomRolloutEvaluator(e) : e \in Seeds} \cup {HeuristicEvaluator}

\* MCTSAgent(evaluator=..., iterations=n, seed=a), twice, each time with an
\* evaluator constructed for it
ConstructTwoAgents ==
    /\ twin.kind = None
    /\ \E a \in Seeds, n \in 1..MaxIterations, evaluator \in AgentEvaluators :
          twin' = [NoTwin EXCEPT !.kind = "MCTSAgent",
                                 !.first = Some(SeededMCTSAgent(evaluator, n, a).value),
                                 !.second = Some(SeededMCTSAgent(evaluator, n, a).value)]
    /\ UNCHANGED <<gameVars, minimaxVars, evalVars, mctsVars, oracle, players, rollout, threads>>

\* first.evaluate(state, root_player), with any arguments
EvaluateOnFirst ==
    /\ twin.kind = "RandomRolloutEvaluator"
    /\ Len(twin.first_results) = Len(twin.second_results)
    /\ Len(twin.calls) < MaxTwinCalls
    /\ \E s \in TwinStates, root_player \in {PLAYER_X, PLAYER_O} :
       \E r \in SeededEvaluate(oracle, twin.first[1], s, root_player) :
          /\ twin' = [twin EXCEPT
                        !.first = Some(r.evaluator),
                        !.calls = Append(@, [state |-> s, root_player |-> root_player]),
                        !.first_results = Append(@, Returned(Some(r.value)))]
          /\ oracle' = r.orc
    /\ UNCHANGED <<gameVars, minimaxVars, evalVars, mctsVars, players, rollout, threads>>

\* second.evaluate(state, root_player), with the arguments of the call made
\* on the first evaluator
EvaluateOnSecond ==
    /\ twin.kind = "RandomRolloutEvaluator"
    /\ Len(twin.second_results) < Len(twin.first_results)
    /\ LET args == twin.calls[Len(twin.second_results) + 1]
       IN  \E r \in SeededEvaluate(oracle, twin.second[1], args.state, args.root_player) :
              /\ twin' = [twin EXCEPT
                            !.second = Some(r.evaluator),
                            !.second_results = Append(@, Returned(Some(r.value)))]
              /\ oracle' = r.orc
    /\ UNCHANGED <<gameVars, minimaxVars, evalVars, mctsVars, players, rollout, threads>>

\* first.choose_move(root_state), with any root state
ChooseMoveOnFirst ==
    /\ twin.kind = "MCTSAgent"
    /\ Len(twin.first_results) = Len(twin.second_results)
    /\ Len(twin.calls) < MaxTwinCalls
    /\ \E s \in TwinRoots :
       \E r \in SeededChooseMove(oracle, twin.first[1], s) :
          /\ twin' = [twin EXCEPT
                        !.first = Some(r.agent),
                        !.calls = Append(@, [state |-> s, root_player |-> None]),
                        !.first_results = Append(@, [error |-> r.error, value |-> r.value])]
          /\ oracle' = r.orc
    /\ UNCHANGED <<gameVars, minimaxVars, evalVars, mctsVars, players, rollout, threads>>

\* second.choose_move(root_state), with the root state handed to the first
\* agent
ChooseMoveOnSecond ==
    /\ twin.kind = "MCTSAgent"
    /\ Len(twin.second_results) < Len(twin.first_results)
    /\ LET args == twin.calls[Len(twin.second_results) + 1]
       IN  \E r \in SeededChooseMove(oracle, twin.second[1], args.state) :
              /\ twin' = [twin EXCEPT
                            !.second = Some(r.agent),
                            !.second_results = Append(@, [error |-> r.error, value |-> r.value])]
              /\ oracle' = r.orc
    /\ UNCHANGED <<gameVars, minimaxVars, evalVars, mctsVars, players, rollout, threads>>

NextSeeded ==
    \/ ConstructTwoEvaluators
    \/ ConstructTwoAgents
    \/ EvaluateOnFirst
    \/ EvaluateOnSecond
    \/ ChooseMoveOnFirst
    \/ ChooseMoveOnSecond

SpecSeeded == Init /\ [][NextSeeded]_vars

----------------------------------------------------------------------------
(* Two threads calling evaluate on one LLMPositionEvaluator.  A thread can  *)
(* be suspended between any two statements of evaluate: between the test of *)
(* the cache and the computation, during the computation (the remote call   *)
(* blocks), and between the computation and the store.                      *)

\* The states the threads evaluate: two in which the game goes on, and a
\* terminal one.
RaceStates == {OpenState, ThreeLeftState, WonState}

InitRace ==
    /\ state = initial_state
    /\ call = NoCall
    /\ solved = NoSolve
    /\ decision = NoDecision
    /\ file = AbsentFile
    /\ \E args \in {<<"heuristic", "">>, <<"openai", "">>, <<"openai", "sk-test">>} :
          ev = LLMPositionEvaluator(args[1], "gpt-4.1-mini", args[2], None, file)
    /\ prevEval = NoPrevEval
    /\ lastEval = NoEval
    /\ saved = NoSave
    /\ agent = NoAgent
    /\ search = NoSearch
    /\ twin = NoTwin
    /\ oracle = NoOracle
    /\ players = NoPlayers
    /\ rollout = NoRollout
    /\ threads = NoThreads

\* A thread calls evaluate(state, root_player): the terminal test, which
\* returns at once on a terminal state, and the key
ThreadCallsEvaluate(t) ==
    /\ threads[t].pc = "idle"
    /\ \E s \in RaceStates, root_player \in {PLAYER_X, PLAYER_O} :
          LET terminal == terminal_value(s, root_player)
          IN  threads' = [threads EXCEPT ![t] =
                  IF terminal # Nothing
                  THEN [NoThread EXCEPT !.pc = "returned", !.state = Some(s),
                                        !.root_player = root_player,
                                        !.result = terminal]
                  ELSE [NoThread EXCEPT !.pc = "test", !.state = Some(s),
                                        !.root_player = root_player,
                                        !.key = CacheKey(ev, s, root_player)]]
    /\ UNCHANGED <<gameVars, minimaxVars, evalVars, mctsVars, seedVars, players, rollout>>

\* if key in self.cache: the hit is counted and the entry returned; else the
\* thread goes on to compute
ThreadTestsCache(t) ==
    /\ threads[t].pc = "test"
    /\ LET key == threads[t].key
       IN  IF key \in DOMAIN ev.cache
           THEN /\ ev' = [ev EXCEPT !.stats.cache_hits = @ + 1]
                /\ threads' = [threads EXCEPT ![t].pc = "returned",
                                              ![t].result = Some(ev.cache[key])]
           ELSE /\ ev' = ev
                /\ threads' = [threads EXCEPT ![t].pc = "compute",
                                              ![t].missed = TRUE]
    /\ UNCHANGED <<gameVars, minimaxVars, file, prevEval, lastEval, saved,
                   mctsVars, seedVars, players, rollout>>

\* _heuristic_value computes from the state, the root player and the
\* rollouts seeded by sha256 of the key: a value found for a key is the
\* value of that key in every call.
HeuristicOfKey(orc, key, value) ==
    key \in DOMAIN orc.heuristic => value = orc.heuristic[key]

\* The miss is counted and value computed: the remote call and, when it
\* fails or is not made, _heuristic_value
ThreadComputes(t) ==
    /\ threads[t].pc = "compute"
    /\ LET th == threads[t]
       IN  \E c \in ComputeOnMiss(ev, th.state[1], th.root_player, th.key) :
               /\ c.heuristic # Nothing => HeuristicOfKey(oracle, th.key, c.heuristic[1])
               /\ oracle' = IF c.heuristic = Nothing THEN oracle
                            ELSE [oracle EXCEPT
                                     !.heuristic = DictPut(@, th.key, c.heuristic[1])]
               /\ ev' = c.ev
               /\ threads' = [threads EXCEPT ![t].pc = "store",
                                             ![t].value = Some(c.value)]
    /\ UNCHANGED <<gameVars, minimaxVars, file, prevEval, lastEval, saved,
                   mctsVars, twin, players, rollout>>

\* self.cache[key] = value; return value
ThreadStores(t) ==
    /\ threads[t].pc = "store"
    /\ ev' = [ev EXCEPT !.cache = DictPut(@, threads[t].key, threads[t].value[1])]
    /\ threads' = [threads EXCEPT ![t].pc = "returned",
                                  ![t].result = threads[t].value]
    /\ UNCHANGED <<gameVars, minimaxVars, file, prevEval, lastEval, saved,
                   mctsVars, seedVars, players, rollout>>

NextRace ==
    \E t \in Threads :
        \/ ThreadCallsEvaluate(t)
        \/ ThreadTestsCache(t)
        \/ ThreadComputes(t)
        \/ ThreadStores(t)

SpecRace == InitRace /\ [][NextRace]_vars

----------------------------------------------------------------------------
(* Properties of the game state contract, checked under Spec.               *)

EmptyCells(s) == {i \in Cells : s.board[i] = EMPTY}

\* C1: in every non-terminal state reached from initial_state, legal_moves
\* lists exactly the empty cells, each once, in ascending order, and
\* apply_move raises nothing on any move it lists.
C1_LegalMovesAreTheEmptyCells ==
    terminal_outcome(state) = None =>
        LET moves == legal_moves(state)
        IN  /\ {moves[k] : k \in 1..Len(moves)} = EmptyCells(state)
            /\ \A j, k \in 1..Len(moves) : j < k => moves[j] < moves[k]
            /\ \A k \in 1..Len(moves) :
                  /\ apply_move(state, moves[k]).error = None
                  /\ apply_move(state, moves[k]).value # Nothing

C1_Witness ==
    /\ call.caller = "play_game"
    /\ terminal_outcome(state) = None
    /\ Len(legal_moves(state)) = 3
    /\ state.board[8] = EMPTY

\* C2: apply_move raises and returns no state when the move is below 0,
\* above 8, or names a cell that is not empty; the state it was given stays
\* the current state.
C2_IllegalMoveRejected ==
    (/\ call.caller # None
     /\ \/ call.move < 0
        \/ call.move > 8
        \/ call.arg.board[call.move] # EMPTY)
    => /\ call.error = "ValueError"
       /\ call.value = Nothing
       /\ state = call.arg

C2_Witness ==
    /\ call.caller = "direct"
    /\ call.move = 0 - 1
    /\ call.arg.board[8] = EMPTY
    /\ call.arg.board[0] = PLAYER_X
    /\ call.error = "ValueError"

\* C3: on a legal move m (a cell of 0..8 that is empty) apply_move returns a
\* state whose cell m holds the mover of the state it was given, whose other
\* cells are those of that state, and whose mover is the other player; the
\* state it was given is as before the call.
C3_ApplyMoveEffect ==
    (/\ call.caller # None
     /\ call.move \in Cells
     /\ call.arg.board[call.move] = EMPTY)
    => /\ call.error = None
       /\ DOMAIN call.value.board = Cells
       /\ call.value.board[call.move] = call.arg.player
       /\ \A i \in Cells \ {call.move} : call.value.board[i] = call.arg.board[i]
       /\ call.value.player \in {PLAYER_X, PLAYER_O}
       /\ call.value.player # call.arg.player
       /\ call.input = call.arg
       /\ (call.caller = "direct" => state = call.arg)

C3_Witness ==
    /\ call.caller = "direct"
    /\ call.move = 4
    /\ call.error = None
    /\ call.arg.player = PLAYER_O
    /\ call.value.board[4] = PLAYER_O

\* C4: in a terminal state that is not a draw the terminal values of the two
\* players add up to 1.0; in a draw both are 0.5; and terminal_value is None
\* exactly when terminal_outcome is None.
C4_TerminalValuesAreComplements ==
    \A p \in {PLAYER_X, PLAYER_O} :
        /\ (terminal_value(state, p) = Nothing) <=> (terminal_outcome(state) = None)
        /\ terminal_outcome(state) \in {PLAYER_X, PLAYER_O} =>
              terminal_value(state, p)[1] + terminal_value(state, other_player(p))[1]
                  = ValueWin
        /\ terminal_outcome(state) = DRAW =>
              /\ terminal_value(state, p) = Some(ValueDraw)
              /\ terminal_value(state, other_player(p)) = Some(ValueDraw)

C4_Witness ==
    /\ terminal_outcome(state) = PLAYER_O
    /\ terminal_value(state, PLAYER_X) = Some(ValueLoss)

----------------------------------------------------------------------------
(* Properties of the minimax solver, checked under SpecMinimax.             *)

\* C5: minimax_value(initial_state(), "X") is 0.5.
C5_InitialStateIsADraw ==
    (solved.caller # None /\ solved.arg = initial_state) =>
        /\ solved.perspective = PLAYER_X
        /\ solved.value = Some(ValueDraw)

C5_Witness == solved.caller = "test_initial_state_value_is_draw"

\* The moves of s that complete a line of the mover at once.
WinningNow(s) ==
    {m \in EmptyCells(s) : terminal_outcome(apply_move(s, m).value) = s.player}

\* test_minimax.py, test_choose_forced_win:  X X . / O O . / . . .  X to move
ForcedWinBoard ==
    [i \in Cells |-> IF i \in {0, 1} THEN PLAYER_X
                     ELSE IF i \in {3, 4} THEN PLAYER_O ELSE EMPTY]

\* C6: when the mover can complete a line at once with move m, best_moves
\* holds (m, 1.0) and choose_perfect_move returns value 1.0 whatever the
\* random choice; on  X X . / O O . / . . .  with X to move the only best
\* move is 2 and choose_perfect_move returns (2, 1.0).
C6_ImmediateWinIsChosen ==
    (decision.caller # None /\ WinningNow(decision.arg) # {}) =>
        /\ \A m \in WinningNow(decision.arg) :
              \E k \in 1..Len(decision.choices) :
                  decision.choices[k] = <<m, ValueWin>>
        /\ decision.error = None
        /\ decision.value = Some(ValueWin)
        /\ decision.arg = GameState(ForcedWinBoard, PLAYER_X) =>
              /\ decision.choices = << <<2, ValueWin>> >>
              /\ decision.move = Some(2)

C6_Witness ==
    /\ decision.caller = "MinimaxAgent"
    /\ decision.arg = GameState(ForcedWinBoard, PLAYER_X)
    /\ decision.move = Some(2)
    /\ decision.value = Some(ValueWin)

----------------------------------------------------------------------------
(* Properties of the evaluator cache, checked under SpecEval.               *)

SameArguments ==
    /\ prevEval.caller = "evaluate"
    /\ lastEval.caller = "evaluate"
    /\ lastEval.state = prevEval.state
    /\ lastEval.root_player = prevEval.root_player

\* C9 as stated: for every state, the second of two consecutive calls of
\* evaluate with the same arguments returns the value of the first and adds
\* one to cache_hits.
C9_SecondCallIsAHit ==
    SameArguments =>
        /\ lastEval.value = prevEval.value
        /\ lastEval.after.cache_hits = lastEval.before.cache_hits + 1

\* C9, amended: the second of two consecutive calls of evaluate with the
\* same arguments returns the value of the first; on a non-terminal state it
\* adds one to cache_hits and changes no other counter; on a terminal state
\* it changes no counter.
C9_SecondCallIsAHitUnlessTerminal ==
    SameArguments =>
        /\ lastEval.value = prevEval.value
        /\ terminal_outcome(lastEval.state) = None =>
              /\ lastEval.hit
              /\ lastEval.after =
                    [lastEval.before EXCEPT !.cache_hits = @ + 1]
        /\ terminal_outcome(lastEval.state) # None =>
              lastEval.after = lastEval.before

C9_Witness ==
    /\ SameArguments
    /\ terminal_outcome(lastEval.state) = None
    /\ prevEval.hit = FALSE
    /\ lastEval.hit
    /\ lastEval.after.cache_hits = 1

\* C10: a fresh evaluator constructed on the cache path after save_cache
\* holds every key the cache had when it was saved, with the saved value;
\* before it evaluates anything it holds no other key; and evaluate on a
\* saved key returns the saved value as a cache hit.
C10_CacheRoundTrip ==
    saved.reloaded =>
        /\ \A k \in DOMAIN saved.cache :
              k \in DOMAIN ev.cache /\ ev.cache[k] = saved.cache[k]
        /\ ev.stats = NewStats => DOMAIN ev.cache = DOMAIN saved.cache
        /\ (lastEval.caller # None /\ lastEval.key \in DOMAIN saved.cache
            /\ terminal_outcome(lastEval.state) = None) =>
              /\ lastEval.hit
              /\ lastEval.value = Some(saved.cache[lastEval.key])
              /\ lastEval.after.cache_hits = lastEval.before.cache_hits + 1

C10_Witness ==
    /\ saved.reloaded
    /\ Cardinality(DOMAIN saved.cache) = 2
    /\ lastEval.caller # None
    /\ lastEval.key \in DOMAIN saved.cache
    /\ lastEval.hit
    /\ lastEval.value = Some(92)
    /\ ev.stats.cache_misses = 0

----------------------------------------------------------------------------
(* Properties of the MCTS driver, checked under SpecMCTS.                   *)

\* C7: on a non-terminal state with exactly one legal move m, choose_move
\* returns m and last_decision.visits is the iteration budget, whatever the
\* budget, the evaluator and the random choices.
C7_SingleLegalMove ==
    (/\ search.pc = "returned"
     /\ terminal_outcome(search.root_state) = None
     /\ Len(legal_moves(search.root_state)) = 1)
    => /\ search.error = None
       /\ search.value = Some(legal_moves(search.root_state)[1])
       /\ agent.object.last_decision # Nothing
       /\ agent.object.last_decision[1].move = legal_moves(search.root_state)[1]
       /\ agent.object.last_decision[1].visits = agent.object.iterations

C7_Witness ==
    /\ search.pc = "returned"
    /\ terminal_outcome(search.root_state) = None
    /\ Len(legal_moves(search.root_state)) = 1
    /\ agent.object.iterations = 3
    /\ agent.object.evaluator = "LLMPositionEvaluator"
    /\ agent.object.last_decision[1].visits = 3

----------------------------------------------------------------------------
(* legal_moves on terminal states, checked under Spec.                      *)

\* C18: in every terminal state (a line is complete, or the board is full)
\* legal_moves is the empty list.
C18_NoLegalMovesWhenTerminal ==
    terminal_outcome(state) # None => legal_moves(state) = <<>>

----------------------------------------------------------------------------
(* best_moves, checked under SpecMinimax.                                   *)

\* The value for the mover of s of the state move m leads to.
ValueAfter(s, m) == minimax_value(apply_move(s, m).value, s.player)

\* C19: in a non-terminal state best_moves holds exactly the legal moves
\* whose value for the mover is the highest over all legal moves, each once
\* and each with that value.
C19_BestMovesAreAllTheBest ==
    (decision.caller # None /\ terminal_outcome(decision.arg) = None) =>
        LET s == decision.arg
            best == Max({ValueAfter(s, m) : m \in EmptyCells(s)})
            top == {m \in EmptyCells(s) : ValueAfter(s, m) = best}
        IN  /\ {decision.choices[k] : k \in 1..Len(decision.choices)}
                  = {<<m, best>> : m \in top}
            /\ Len(decision.choices) = Cardinality(top)

C19_Witness ==
    /\ decision.caller = "MinimaxAgent"
    /\ terminal_outcome(decision.arg) = None
    /\ Len(decision.choices) = 2
    /\ Len(legal_moves(decision.arg)) = 4
    /\ decision.value = Some(ValueDraw)

----------------------------------------------------------------------------
(* The iteration budget and the final ranking, checked under SpecMCTS.      *)

\* C14: MCTSAgent(iterations=n) raises exactly when n <= 0 and then there is
\* no agent; an agent that exists has a budget of at least 1, and a call of
\* choose_move that has returned has run that many iterations, at least one.
C14_BudgetIsPositive ==
    /\ agent.iterations # Nothing =>
          /\ (agent.iterations[1] <= 0) <=> (agent.error = "ValueError")
          /\ agent.iterations[1] <= 0 => agent.object = Nothing
    /\ agent.object # Nothing => agent.object.iterations >= 1
    /\ search.pc = "returned" =>
          /\ search.done >= 1
          /\ search.done = agent.object.iterations

C14_Witness ==
    /\ agent.iterations = Some(0)
    /\ agent.error = "ValueError"
    /\ agent.object = Nothing

\* The children of the root in the order they were created, as nodes.
RootChildren ==
    [k \in 1..Len(search.tree[<<>>].children) |->
        search.tree[<<search.tree[<<>>].children[k]>>]]

\* mean_value of a is below mean_value of b, both visited.
MeanBelow(a, b) == a.value_sum * b.visits < b.value_sum * a.visits

----------------------------------------------------------------------------
(* The searches on states in which the game is over, checked under          *)
(* SpecMCTS and SpecMinimax.                                                *)

\* C15: choose_move, minimax_value and choose_perfect_move raise nothing and
\* return a result on every state, those in which the game is over included.
C15_SearchesAreTotal ==
    /\ search.pc = "returned" => (search.error = None /\ search.value # Nothing)
    /\ decision.caller # None => (decision.error = None /\ decision.move # Nothing)
    /\ solved.caller # None => solved.value # Nothing

----------------------------------------------------------------------------
(* The evaluators on terminal states, the range of the values and the       *)
(* loading of the cache file, checked under SpecEval.                       *)

\* C12: on a terminal state evaluate of either evaluator returns
\* terminal_value(state, root_player), whatever the cache holds under the
\* key of the state; nothing is looked up, stored or counted.
C12_TerminalValueIsReturned ==
    (lastEval.caller # None /\ terminal_outcome(lastEval.state) # None) =>
        /\ lastEval.error = None
        /\ lastEval.value = terminal_value(lastEval.state, lastEval.root_player)
        /\ ~lastEval.hit
        /\ lastEval.after = lastEval.before

\* The cache holds 0.3 under the key of the drawn board and evaluate returns 0.5.
C12_Witness ==
    /\ lastEval.caller = "evaluate"
    /\ lastEval.state = DrawnState
    /\ lastEval.key \in DOMAIN ev.cache
    /\ ev.cache[lastEval.key] = 30
    /\ lastEval.value = Some(ValueDraw)

\* C13: every value in the cache and every value evaluate returns is in
\* [0, 1].
C13_ValuesInUnitInterval ==
    /\ \A k \in DOMAIN ev.cache :
          ev.cache[k] >= ValueLoss /\ ev.cache[k] <= ValueWin
    /\ lastEval.value # Nothing =>
          lastEval.value[1] >= ValueLoss /\ lastEval.value[1] <= ValueWin

\* The evaluator has a cache path and has done nothing since __init__; the
\* file is then the one __init__ found, or one save_cache wrote since.
FreshlyConstructed ==
    /\ ev.cache_path # None
    /\ ev.stats = NewStats
    /\ lastEval.caller # "evaluate"

\* The file holds a JSON object and the text is that of a value in it.
NonNumericValue(text) == ~IsNumberText(text)

RejectedValue(text) ==
    \/ text = <<"n", "u", "l", "l">>
    \/ IsJsonString(text) /\ ~IsNumberText(StringChars(text))

\* C17 as stated: when the cache file is absent, unreadable, not valid JSON,
\* not a JSON object, or holds a value that is not a number, __init__ raises
\* nothing and the cache is empty.
C17_EmptyCacheOnAnyNonNumber ==
    (/\ FreshlyConstructed
     /\ \/ ~file.exists
        \/ file.kind # "object"
        \/ \E m \in file.members : NonNumericValue(m[2]))
    => (ev.init_error = None /\ ev.cache = EmptyDict)

\* C17, amended: when the cache file is absent, cannot be read, is not valid
\* JSON, is not a JSON object, or holds a value float() turns down (null, a
\* string that spells no number), __init__ raises nothing and the cache is
\* empty, the good entries of the file included; a string that spells a
\* number is loaded as that number.
C17_EmptyCacheOnRejectedFile ==
    FreshlyConstructed =>
        /\ ev.init_error = None
        /\ (\/ ~file.exists
            \/ file.kind # "object"
            \/ \E m \in file.members : RejectedValue(m[2]))
           => ev.cache = EmptyDict
        /\ (/\ file.exists
            /\ file.kind = "object"
            /\ \A m \in file.members : ~RejectedValue(m[2]))
           => /\ DOMAIN ev.cache = {m[1] : m \in file.members}
              /\ \A m \in file.members :
                    IsJsonString(m[2]) =>
                        ev.cache[m[1]] = ParseFloat(StringChars(m[2]))

\* The file with one number and one string that spells no number.
C17_Witness ==
    /\ FreshlyConstructed
    /\ file.exists
    /\ file.kind = "object"
    /\ Cardinality(file.members) = 2
    /\ \E m \in file.members : RejectedValue(m[2])
    /\ \E m \in file.members : IsNumberText(m[2])
    /\ ev.cache = EmptyDict

----------------------------------------------------------------------------
(* The fallback of the openai provider, checked under SpecFallback.         *)

\* The last call of evaluate missed the cache and either the remote call
\* failed or there is no API key.
FellBack ==
    /\ lastEval.caller = "evaluate"
    /\ terminal_outcome(lastEval.state) = None
    /\ ~lastEval.hit
    /\ ev.provider = "openai"
    /\ (ev.api_key = "" \/ lastEval.remote = "failed")

\* C16: with the openai provider, when the remote call fails or there is no
\* API key, evaluate raises nothing, returns the value _heuristic_value
\* computed in that call, and adds exactly one to fallback_to_heuristic; the
\* remote call is counted when it was made, and a search of an MCTSAgent
\* with this evaluator does not end in an exception of the evaluator.
C16_FailureFallsBackToHeuristic ==
    /\ FellBack =>
          /\ lastEval.error = None
          /\ lastEval.heuristic # Nothing
          /\ lastEval.value = lastEval.heuristic
          /\ ev.cache[lastEval.key] = lastEval.value[1]
          /\ lastEval.after =
                [lastEval.before EXCEPT
                    !.cache_misses = @ + 1,
                    !.fallback_to_heuristic = @ + 1,
                    !.guided_rollouts = @ + rollout_samples,
                    !.api_calls = IF ev.api_key = "" THEN @ ELSE @ + 1]
    /\ lastEval.caller = "evaluate" => lastEval.error = None
    /\ search.pc = "returned" => search.error = None

C16_Witness ==
    /\ FellBack
    /\ lastEval.remote = "failed"
    /\ lastEval.after.fallback_to_heuristic = 2
    /\ lastEval.after.api_calls = 2

----------------------------------------------------------------------------
(* Properties of equally seeded objects, checked under SpecSeeded.          *)

\* The two objects were constructed with the same arguments: the same seed,
\* and for agents the same iteration budget and evaluators of the same seed.
EquallySeeded ==
    /\ twin.kind # None
    /\ twin.first[1].rng.seed = twin.second[1].rng.seed
    /\ twin.kind = "MCTSAgent" =>
          /\ twin.first[1].iterations = twin.second[1].iterations
          /\ twin.first[1].evaluator.kind = "RandomRolloutEvaluator" =>
                twin.first[1].evaluator.rng.seed = twin.second[1].evaluator.rng.seed

\* C11: two RandomRolloutEvaluators constructed with the same seed return the
\* same values for the same calls of evaluate, one after the other; two
\* MCTSAgents constructed with the same seed and iteration budget, each with
\* an evaluator of the same seed, return the same moves for the same root
\* states, one after the other.
C11_EqualSeedsGiveEqualResults ==
    EquallySeeded =>
        \A i \in 1..Len(twin.second_results) :
            twin.second_results[i] = twin.first_results[i]

\* Two agents of the same seed, each with a RandomRolloutEvaluator of the
\* same seed, have both searched from the root with two empty cells and then
\* from the board X has won: the generators were drawn from more than once,
\* with more than one element to choose from.
C11_Witness ==
    /\ EquallySeeded
    /\ twin.kind = "MCTSAgent"
    /\ twin.first[1].evaluator.kind = "RandomRolloutEvaluator"
    /\ twin.first[1].iterations = MaxIterations
    /\ Len(twin.second_results) = 2
    /\ twin.calls[1].state = TwoLeftState
    /\ twin.calls[2].state = WonState
    /\ twin.second_results = twin.first_results
    /\ twin.second[1].rng = twin.first[1].rng
    /\ Len(twin.second[1].rng.history) > 2
    /\ Len(twin.second[1].evaluator.rng.history) > 0
    /\ \E k \in 1..Len(twin.second[1].rng.history) : twin.second[1].rng.history[k] > 1

----------------------------------------------------------------------------
(* Properties of the states of a game, checked under Spec.                  *)

\* The number of cells of the board that hold the mark
Marks(s, mark) == Cardinality({i \in Cells : s.board[i] = mark})

\* The player holds all three cells of one of WIN_LINES
HasLine(s, player) ==
    \E k \in 1..Len(WIN_LINES) :
        \A j \in 1..3 : s.board[WIN_LINES[k][j]] = player

\* C25: every state reached from initial_state by legal moves on non-terminal
\* states has a board of 9 cells holding X, O or "."; X is to move exactly
\* when there are as many X as O, O exactly when there is one X more; at most
\* one player holds a winning line; every move of the game adds one mark, so
\* after 9 moves at the latest the board is full and the state terminal.
C25_ReachableStatesAreWellFormed ==
    /\ DOMAIN state.board = Cells
    /\ \A i \in Cells : state.board[i] \in {PLAYER_X, PLAYER_O, EMPTY}
    /\ state.player \in {PLAYER_X, PLAYER_O}
    /\ state.player = PLAYER_X <=> Marks(state, PLAYER_X) = Marks(state, PLAYER_O)
    /\ state.player = PLAYER_O <=> Marks(state, PLAYER_X) = Marks(state, PLAYER_O) + 1
    /\ ~(HasLine(state, PLAYER_X) /\ HasLine(state, PLAYER_O))
    /\ call.caller = "play_game" =>
          /\ terminal_outcome(call.arg) = None
          /\ Marks(state, EMPTY) = Marks(call.arg, EMPTY) - 1
    /\ Marks(state, EMPTY) = 0 => terminal_outcome(state) # None

\* The ninth move of a game has filled the board and completed a line of X.
C25_Witness ==
    /\ call.caller = "play_game"
    /\ Marks(state, EMPTY) = 0
    /\ HasLine(state, PLAYER_X)
    /\ terminal_outcome(state) = PLAYER_X

----------------------------------------------------------------------------
(* Properties of minimax_value for both perspectives, checked under         *)
(* SpecZeroSum.                                                             *)

\* C29: for every state reached from initial_state, minimax_value for X and
\* minimax_value for O are each one of 0.0, 0.5 and 1.0 and add up to 1.0.
C29_PerspectivesAreComplements ==
    solved.opposite # Nothing =>
        /\ solved.value[1] \in {ValueLoss, ValueDraw, ValueWin}
        /\ solved.opposite[1] \in {ValueLoss, ValueDraw, ValueWin}
        /\ solved.value[1] + solved.opposite[1] = ValueWin

\* Both values were computed for a state after the first two moves of a
\* game, in which X has a forced win.
C29_Witness ==
    /\ solved.opposite # Nothing
    /\ terminal_outcome(solved.arg) = None
    /\ Len(legal_moves(solved.arg)) = 7
    /\ solved.value = Some(ValueWin)
    /\ solved.opposite = Some(ValueLoss)

----------------------------------------------------------------------------
(* Properties of games with a MinimaxAgent, checked under SpecPerfect.      *)

\* C28: a game from initial_state in which one player always plays a move of
\* best_moves, against any legal moves, never ends with the other player
\* having won; when both players always play moves of best_moves the game
\* ends in a draw.
C28_PerfectPlayerNeverLoses ==
    terminal_outcome(state) # None =>
        /\ \A p \in {PLAYER_X, PLAYER_O} :
              players[p] = "MinimaxAgent" => terminal_outcome(state) # other_player(p)
        /\ (players[PLAYER_X] = "MinimaxAgent" /\ players[PLAYER_O] = "MinimaxAgent")
              => terminal_outcome(state) = DRAW

\* A game that O played with best_moves against any moves of X has ended
\* with a win of O.
C28_Witness ==
    /\ players = [X |-> "any", O |-> "MinimaxAgent"]
    /\ terminal_outcome(state) = PLAYER_O
    /\ decision = NoDecision

----------------------------------------------------------------------------
(* Properties of the search tree, checked under SpecMCTS.                   *)

\* An iteration of the loop of choose_move has been completed in this step.
IterationDone ==
    /\ search.pc = "iterating"
    /\ search'.pc = "iterating"
    /\ search'.done = search.done + 1

\* visits and value_sum of the node at the path before the step, 0 and 0.0
\* for a node the step created
VisitsBefore(p) == IF p \in DOMAIN search.tree THEN search.tree[p].visits ELSE 0
ValueSumBefore(p) == IF p \in DOMAIN search.tree THEN search.tree[p].value_sum ELSE 0

\* C23: in every iteration evaluate is called with the mover of the root
\* state as root_player, and backpropagation adds 1 to visits and the value
\* returned to value_sum of the node evaluated and of every node above it up
\* to the root, and leaves visits and value_sum of every other node as they
\* were.
C23_BackpropagationAlongThePath ==
    [][IterationDone =>
          LET it == search'.last
          IN  /\ it.root_player = search.root_state.player
              /\ \A p \in DOMAIN search'.tree :
                    IF p \in PathToRoot(it.evaluated[1])
                    THEN /\ search'.tree[p].visits = VisitsBefore(p) + 1
                         /\ search'.tree[p].value_sum = ValueSumBefore(p) + it.value[1]
                    ELSE /\ search'.tree[p].visits = VisitsBefore(p)
                         /\ search'.tree[p].value_sum = ValueSumBefore(p)]_vars

\* The second iteration from the forced-block root: the node evaluated is a
\* child of the root in which the other player is to move and the game goes
\* on; its sibling of the first iteration is off the path.
C23_Witness ==
    /\ search.pc = "iterating"
    /\ search.root_state = ForcedBlockState
    /\ search.done = 2
    /\ search.last.value # Nothing
    /\ Len(search.last.evaluated[1]) = 1
    /\ search.tree[search.last.evaluated[1]].state.player # search.root_state.player
    /\ ~is_terminal(search.tree[search.last.evaluated[1]])
    /\ search.last.root_player = PLAYER_O
    /\ Len(search.tree[<<>>].children) = 2
    /\ search.tree[<<>>].visits = 2

\* C24: in every tree of a search a node whose state is terminal has no
\* children, and an iteration attaches one node when the node the selection
\* ended at is not terminal and has untried moves, and no node otherwise.
C24_OneNodePerIteration ==
    [][/\ \A p \in DOMAIN search'.tree :
             is_terminal(search'.tree[p]) => Len(search'.tree[p].children) = 0
       /\ IterationDone =>
             LET node == search.tree[search'.last.selected[1]]
                 attached == (DOMAIN search'.tree) \ (DOMAIN search.tree)
             IN  /\ DOMAIN search.tree \subseteq DOMAIN search'.tree
                 /\ Cardinality(attached) =
                       IF ~is_terminal(node) /\ Len(node.untried_moves) > 0
                       THEN 1 ELSE 0]_vars

\* An iteration has ended at a terminal child of the root and attached
\* nothing: the tree has the root and that child only.
C24_Witness ==
    /\ search.pc = "iterating"
    /\ search.done = 2
    /\ search.last.selected # Nothing
    /\ Len(search.last.selected[1]) = 1
    /\ is_terminal(search.tree[search.last.selected[1]])
    /\ search.last.evaluated = search.last.selected
    /\ Cardinality(DOMAIN search.tree) = 2

\* The sum of the visits of the children of the node at the path
RECURSIVE VisitsOfChildren(_, _, _)
VisitsOfChildren(tree, path, k) ==
    IF k = 0 THEN 0
    ELSE tree[Append(path, tree[path].children[k])].visits
            + VisitsOfChildren(tree, path, k - 1)

\* A search from a root in which the game goes on, in which no call of
\* evaluate has raised
SearchGoesOn ==
    /\ search.pc \in {"iterating", "returned"}
    /\ search.error = None
    /\ terminal_outcome(search.root_state) = None

\* C26: after k iterations from a non-terminal root the root has k visits,
\* every other node at least 1, every non-terminal node as many as its
\* children together, and 1 more when it is not the root; when the search
\* ends the visits of the children of the root add up to the budget.
C26_VisitsAddUp ==
    SearchGoesOn =>
        /\ search.tree[<<>>].visits = search.done
        /\ \A p \in DOMAIN search.tree :
              /\ p # <<>> => search.tree[p].visits >= 1
              /\ ~is_terminal(search.tree[p]) =>
                    search.tree[p].visits =
                        VisitsOfChildren(search.tree, p, Len(search.tree[p].children))
                            + (IF p = <<>> THEN 0 ELSE 1)
        /\ search.pc = "returned" =>
              VisitsOfChildren(search.tree, <<>>, Len(search.tree[<<>>].children))
                  = agent.object.iterations

\* A search of the largest budget from the forced-block root has returned;
\* the root has as many children as iterations.
C26_Witness ==
    /\ SearchGoesOn
    /\ search.pc = "returned"
    /\ search.root_state = ForcedBlockState
    /\ agent.object.iterations = MaxIterations
    /\ search.done = MaxIterations
    /\ Len(search.tree[<<>>].children) = MaxIterations

\* The elements of a list
Elements(list) == {list[k] : k \in 1..Len(list)}

\* No element of the list occurs twice
NoDuplicates(list) == \A j, k \in 1..Len(list) : j # k => list[j] # list[k]

\* C27: in every tree of a search, the moves of the children of a node and
\* its untried moves have no move in common, hold no move twice and are
\* together the legal moves of the node's state; the child under move m has
\* the state apply_move gives, m as its move and the node as its parent.
C27_ChildrenAndUntriedMoves ==
    \A p \in DOMAIN search.tree :
        LET node == search.tree[p]
        IN  /\ Elements(node.children) \cap Elements(node.untried_moves) = {}
            /\ NoDuplicates(node.children)
            /\ NoDuplicates(node.untried_moves)
            /\ Elements(node.children) \cup Elements(node.untried_moves)
                  = Elements(legal_moves(node.state))
            /\ \A m \in Elements(node.children) :
                  /\ Append(p, m) \in DOMAIN search.tree
                  /\ search.tree[Append(p, m)].state = apply_move(node.state, m).value
                  /\ search.tree[Append(p, m)].move = Some(m)
                  /\ search.tree[Append(p, m)].parent = Some(p)

\* The forced-block root after three iterations: three children, two moves
\* untried, the last untried move among the children.
C27_Witness ==
    /\ search.pc = "iterating"
    /\ search.root_state = ForcedBlockState
    /\ Len(search.tree[<<>>].children) = 3
    /\ Len(search.tree[<<>>].untried_moves) = 2
    /\ 8 \in Elements(search.tree[<<>>].children)

----------------------------------------------------------------------------
(* Properties of the cache over the calls on one evaluator, checked under   *)
(* SpecEval.                                                                *)

\* This step is a call of evaluate on the evaluator in use.
EvaluateStep ==
    /\ lastEval'.caller = "evaluate"
    /\ <<ev, prevEval, lastEval>>' # <<ev, prevEval, lastEval>>

\* C30: a call of evaluate removes no key from the cache and changes the
\* value of none; on a state in which the game goes on it adds 1 to exactly
\* one of cache_hits and cache_misses; when the key was in the cache it adds
\* 1 to cache_hits and changes neither the cache nor another counter.
C30_CacheIsAppendOnly ==
    [][EvaluateStep =>
          /\ \A k \in DOMAIN ev.cache :
                k \in DOMAIN ev'.cache /\ ev'.cache[k] = ev.cache[k]
          /\ terminal_outcome(lastEval'.state) = None =>
                /\ \/ /\ ev'.stats.cache_hits = ev.stats.cache_hits + 1
                      /\ ev'.stats.cache_misses = ev.stats.cache_misses
                   \/ /\ ev'.stats.cache_hits = ev.stats.cache_hits
                      /\ ev'.stats.cache_misses = ev.stats.cache_misses + 1
                /\ lastEval'.key \in DOMAIN ev.cache =>
                      /\ ev'.cache = ev.cache
                      /\ ev'.stats = [ev.stats EXCEPT !.cache_hits = @ + 1]]_vars

\* A call that stored a value has been followed by a call the cache
\* answered: one key, one miss, one hit.
C30_Witness ==
    /\ lastEval.caller = "evaluate"
    /\ lastEval.hit
    /\ prevEval.caller = "evaluate"
    /\ ~prevEval.hit
    /\ terminal_outcome(prevEval.state) = None
    /\ ev.stats.cache_hits = 1
    /\ ev.stats.cache_misses = 1
    /\ DOMAIN ev.cache = {lastEval.key}

----------------------------------------------------------------------------
(* Properties of rollouts, checked under FairSpecRollout.                   *)

\* The rollout has not left its loop with an exception, has made no more
\* moves than the start state had empty cells, each move filling one empty
\* cell of sim, and a value returned is the terminal value of sim for the
\* root player: 0.0, 0.5 or 1.0.
RolloutIsSound ==
    rollout.pc # "idle" =>
        /\ rollout.pc # "raised"
        /\ rollout.error = None
        /\ rollout.moves <= Len(legal_moves(rollout.start))
        /\ Len(legal_moves(rollout.sim)) = Len(legal_moves(rollout.start)) - rollout.moves
        /\ rollout.pc = "returned" =>
              /\ terminal_value(rollout.sim, rollout.root_player) # Nothing
              /\ rollout.value = terminal_value(rollout.sim, rollout.root_player)
              /\ rollout.value[1] \in {ValueLoss, ValueDraw, ValueWin}

\* A pass of the loop that moves takes a legal move of sim and applies it.
RolloutMoveIsLegal ==
    (rollout.pc = "looping" /\ rollout'.moves = rollout.moves + 1) =>
        \E k \in 1..Len(legal_moves(rollout.sim)) :
            rollout'.sim = apply_move(rollout.sim, legal_moves(rollout.sim)[k]).value

\* C22: a rollout started on a non-terminal state of a game, random or
\* guided, returns after at most as many moves as the state has empty cells,
\* every move a legal move of the state it is made in, and the value it
\* returns is the terminal value of the last state for the root player, one
\* of 0.0, 0.5 and 1.0, whatever the generator chooses.
C22_RolloutsTerminateWithTerminalValue ==
    /\ []RolloutIsSound
    /\ [][RolloutMoveIsLegal]_vars
    /\ (rollout.pc = "looping") ~> (rollout.pc = "returned")

\* A guided rollout for X from a state with as many empty cells as rollouts
\* start with has filled the board and returned a draw.
C22_Witness ==
    /\ rollout.pc = "returned"
    /\ rollout.kind = "LLMPositionEvaluator"
    /\ rollout.root_player = PLAYER_X
    /\ Len(legal_moves(rollout.start)) = MaxRolloutEmpties
    /\ rollout.moves = MaxRolloutEmpties
    /\ rollout.value = Some(ValueDraw)

----------------------------------------------------------------------------
(* Properties of racing calls of evaluate, checked under SpecRace.          *)

\* Both threads have returned from calls on one cache key that both found
\* absent from the cache: each tested the cache before the other stored.
BothMissedOneKey ==
    /\ \A t \in Threads : threads[t].pc = "returned" /\ threads[t].missed
    /\ threads[1].key = threads[2].key

\* C21: two calls of evaluate on one cache key that both find the key absent
\* before either stores return the same value, and the cache ends with that
\* value under the key, for every provider.
C21_RacingCallsAgree ==
    BothMissedOneKey =>
        /\ threads[1].result = threads[2].result
        /\ ev.cache[threads[1].key] = threads[1].result[1]

====
